---------------------------- MODULE Spec2Model ----------------------------
(***************************************************************************)
(* Verification model of the BTD dashboard decision pipeline:              *)
(*   config.compute_budget_buckets, engine.allocator.build_portfolio,      *)
(*   engine.rebalance.evaluate_rebalance, engine.hyperliquid.compute_impact *)
(*   and find_max_notional_for_impact, engine.scanner.build_candidates.    *)
(*                                                                         *)
(* Numbers.  The program computes in IEEE doubles; the model computes the  *)
(* exact rational values with integers in a fixed unit per component, so   *)
(* that every division the code performs is exact in the model.  The       *)
(* rounding error of double arithmetic itself is not modelled; the         *)
(* explicit round(x, 2) calls of the code are.                             *)
(***************************************************************************)
EXTENDS Integers, Sequences, FiniteSets, TLC

VARIABLES
    \* ---- config.compute_budget_buckets / allocator.build_portfolio ----
    budget,       \* the budget argument, whole USD (may be negative)
    cands,        \* the candidates argument (score-descending list)
    pc,           \* position inside build_portfolio
    buckets,      \* result of compute_budget_buckets (amounts in U)
    ci,           \* index of the candidate the for-loop is at
    remaining,    \* allocator.py:78 `remaining` (in U)
    positions,    \* allocator.py:79 `positions`
    portfolio,    \* the returned Portfolio
    \* ---- rebalance.evaluate_rebalance ----
    old_positions,   \* argument: the persisted portfolio's position dicts
    new_positions,   \* argument: the new portfolio's position dicts
    rb_budget,       \* argument budget (whole USD)
    rpc,             \* position inside evaluate_rebalance
    decision,        \* the returned RebalanceDecision
    \* ---- hyperliquid.compute_impact ----
    book,            \* argument: [bids |-> levels, asks |-> levels]
    notional,        \* argument notional (in T)
    side,            \* argument side, "sell" or "buy"
    ipc,             \* position inside compute_impact
    impact,          \* the returned slippage, <<numerator, denominator>>
    \* ---- hyperliquid.find_max_notional_for_impact ----
    fm_book,         \* argument book
    max_impact_pct,  \* argument, <<numerator, denominator>>
    fpc,             \* position inside find_max_notional_for_impact
    lo,              \* hyperliquid.py:127 `lo` (in T)
    hi,              \* hyperliquid.py:127 `hi` (in T)
    best,            \* hyperliquid.py:128 `best` (in T)
    iters,           \* iterations of the for-loop started so far
    fm_result,       \* the returned notional (in cents)
    \* ---- scanner.build_candidates ----
    markets,         \* argument: the market dicts of parse_market_data
    scan_budget,     \* argument budget (whole USD)
    spc,             \* position inside build_candidates
    mi,              \* index of the market the Phase-1 loop is at
    pre_filtered,    \* scanner.py:249 `pre_filtered`
    deep_scan_set,   \* scanner.py:312 `deep_scan_set`
    ds_idx,          \* 1-based index of the cohort member Phase 2 is at
    candidates,      \* scanner.py:242 `candidates`
    rejected,        \* scanner.py:243 `rejected`
    scan_result,     \* the returned ScanResult
    answers,         \* what the environment answered for each cohort member
    \* ---- worker.market_refresh_job and the tables of db.py ----
    portfolio_positions,  \* table portfolio_positions (rows keyed by coin)
    rejected_markets,     \* table rejected_markets (rows keyed by coin)
    portfolio_targets,    \* the single row of table portfolio_targets
    rebalance_advice,     \* what update_rebalance_decision stored
    wpc,                  \* position inside market_refresh_job
    cycle,                \* number of the invocation of market_refresh_job
    run,                  \* scan_result and portfolio of this invocation
    wi,                   \* index of the row the insert loop is at
    before,               \* the three tables as they were when the cycle began
    seen,                 \* what the dashboard's last query returned
    critical_alerts,      \* CRITICAL alerts sent by the outermost handler
    \* ---- hyperliquid.parse_market_data ----
    ctxs,                 \* arguments: the (meta, ctx) pairs of zip(universe, ctxs)
    \* ---- scanner.compute_dual_ema ----
    epochs_8h,            \* argument: the "apr" of each 8-hour epoch, oldest first
    epc,                  \* position inside compute_dual_ema
    dual_ema,             \* the returned pair (ema_3d, ema_7d)
    \* ---- scanner.aggregate_to_8h_epochs ----
    hourly_history,       \* argument: the funding samples in arrival order
    apc,                  \* position inside aggregate_to_8h_epochs
    epochs,               \* the returned list of epochs
    \* ---- equity.is_public_equity ----
    symbols_cache,        \* module global _symbols_cache
    symbols_last_fetched, \* module global _symbols_last_fetched
    clock,                \* time.time()
    ticks,                \* how often the clock has moved
    qpc,                  \* position of each caller inside is_public_equity
    combined,             \* what each caller's download brought
    verdict,              \* what each caller was answered, and from where
    \* ---- alerts.send_critical_alert ----
    alert_history,        \* the CRITICAL rows of one ticker, in rowid order
    minute,               \* datetime.now(timezone.utc), in minutes
    jpc                   \* position of each job inside send_critical_alert

allocVars == <<budget, cands, pc, buckets, ci, remaining, positions, portfolio>>
rebalVars == <<old_positions, new_positions, rb_budget, rpc, decision>>
impactVars == <<book, notional, side, ipc, impact>>
searchVars == <<fm_book, max_impact_pct, fpc, lo, hi, best, iters, fm_result>>
scanVars == <<markets, scan_budget, spc, mi, pre_filtered, deep_scan_set,
              ds_idx, candidates, rejected, scan_result, answers>>

workerVars == <<portfolio_positions, rejected_markets, portfolio_targets,
                rebalance_advice, wpc, cycle, run, wi, before, seen,
                critical_alerts>>

feedVars == <<ctxs>>
emaVars == <<epochs_8h, epc, dual_ema>>
aggVars == <<hourly_history, apc, epochs>>
equityVars == <<symbols_cache, symbols_last_fetched, clock, ticks, qpc,
                combined, verdict>>

\* The components added after the feed; none of the earlier ones touches them.
alertVars == <<alert_history, minute, jpc>>
lateVars == <<emaVars, aggVars, equityVars, alertVars>>

vars == <<allocVars, rebalVars, impactVars, searchVars, scanVars, workerVars,
          feedVars, lateVars>>

\* The variables each component leaves alone.
notAlloc == <<rebalVars, impactVars, searchVars, scanVars, workerVars, feedVars,
    lateVars>>
notRebal == <<allocVars, impactVars, searchVars, scanVars, workerVars, feedVars,
    lateVars>>
notImpact == <<allocVars, rebalVars, searchVars, scanVars, workerVars, feedVars,
    lateVars>>
notSearch == <<allocVars, rebalVars, impactVars, scanVars, workerVars, feedVars,
    lateVars>>
notScan == <<allocVars, rebalVars, impactVars, searchVars, workerVars, feedVars,
    lateVars>>
notWorker == <<allocVars, rebalVars, impactVars, searchVars, scanVars, feedVars,
    lateVars>>
notLate == <<allocVars, rebalVars, impactVars, searchVars, scanVars, workerVars,
             feedVars>>
notEma == <<notLate, aggVars, equityVars, alertVars>>
notAgg == <<notLate, emaVars, equityVars, alertVars>>
notEquity == <<notLate, emaVars, aggVars, alertVars>>
notAlert == <<notLate, emaVars, aggVars, equityVars>>

-----------------------------------------------------------------------------
(* Generic helpers *)

Min(a, b) == IF a <= b THEN a ELSE b
Max(a, b) == IF a >= b THEN a ELSE b
Abs(a) == IF a < 0 THEN -a ELSE a

RECURSIVE SumSeq(_)
SumSeq(s) == IF s = <<>> THEN 0 ELSE Head(s) + SumSeq(Tail(s))

RECURSIVE GCD(_, _)
GCD(a, b) == IF b = 0 THEN a ELSE GCD(b, a % b)

\* x * n / d with n / d in lowest terms, for x a multiple of the reduced d;
\* no intermediate product x * n.
MulFrac(x, n, d) ==
    LET g == GCD(n, d) IN (x \div (d \div g)) * (n \div g)

\* Natural numbers of any size: the limbs of base Limb, lowest first, the
\* highest not 0; <<>> is zero.
Limb == 100 * 100

RECURSIVE BigCarry(_, _)
BigCarry(s, c) ==
    IF s = <<>>
    THEN IF c = 0 THEN <<>> ELSE <<c % Limb>> \o BigCarry(<<>>, c \div Limb)
    ELSE LET t == Head(s) + c
         IN <<t % Limb>> \o BigCarry(Tail(s), t \div Limb)

RECURSIVE BigTrim(_)
BigTrim(s) ==
    IF s # <<>> /\ s[Len(s)] = 0 THEN BigTrim(SubSeq(s, 1, Len(s) - 1)) ELSE s

Big(n) == BigCarry(<<>>, n)
BigMul(s, m) == BigTrim(BigCarry([i \in DOMAIN s |-> s[i] * m], 0))
BigAdd(a, b) ==
    LET n == Max(Len(a), Len(b))
        at(s, i) == IF i <= Len(s) THEN s[i] ELSE 0
    IN BigTrim(BigCarry([i \in 1..n |-> at(a, i) + at(b, i)], 0))

\* s * m^k
RECURSIVE BigTimes(_, _, _)
BigTimes(s, m, k) ==
    IF k = 0
    THEN s
    ELSE LET t == BigTimes(s, m, k - 1) IN IF t = <<>> THEN <<>> ELSE BigMul(t, m)

BigPow(m, k) == BigTimes(Big(1), m, k)

\* a <= b
BigLeq(a, b) ==
    \/ Len(a) < Len(b)
    \/ /\ Len(a) = Len(b)
       /\ \A i \in DOMAIN a :
              a[i] > b[i] => \E j \in (i + 1)..Len(a) : a[j] < b[j]

\* round(p / d - n / d) to the nearest whole number, ties to even, for
\* n <= p and a result below 2^16
RECURSIVE BigFloor(_, _, _, _, _)
BigFloor(p, n, d, low, high) ==
    IF high - low <= 1
    THEN low
    ELSE LET mid == (low + high) \div 2
         IN IF BigLeq(BigAdd(BigMul(d, mid), n), p)
            THEN BigFloor(p, n, d, mid, high)
            ELSE BigFloor(p, n, d, low, mid)

BigRound(p, n, d) ==
    LET q == BigFloor(p, n, d, 0, 256 * 256)
        twice == BigMul(p, 2)
        half == BigAdd(BigMul(d, 2 * q + 1), BigMul(n, 2))
    IN IF twice = half THEN (IF q % 2 = 0 THEN q ELSE q + 1)
       ELSE IF BigLeq(half, twice) THEN q + 1
       ELSE q

-----------------------------------------------------------------------------
(* Units of the allocator: U = 1/27 cent = 1/2700 USD.  A whole-dollar     *)
(* budget makes 0.08 * b, deployable / 1.35 and 0.5 * h_max integers in U. *)
(* Position and Portfolio fields, which the code rounds to 2 decimals, are *)
(* integers in cents.                                                      *)

UPerCent == 20 + 7
UPerUSD  == 100 * UPerCent

\* src/config.py constants (USD, or <<numerator, denominator>>)
EMERGENCY_FLOOR == 50000
EMERGENCY_PCT == <<8, 100>>
OPS_RESERVE == 5000
COLLATERAL_FRACTION == <<35, 100>>
MAX_NAMES == 6
MAX_CONCENTRATION == <<1, 2>>
ALLOCATION_DUST_USD == 100
\* config.py:50-51, in percent
DEFAULT_COINBASE_APR == <<350, 100>>
DEFAULT_INSURANCE_BUDGET_PCT == <<150, 100>>

\* round(x, 2) of an amount x given in U; the result is in cents.  27 is odd,
\* so no amount in U is half-way between two cents and Python's
\* round-half-even never has a tie to break.
Round2(x) == LET q == x \div UPerCent
                 r == x % UPerCent
             IN IF 2 * r > UPerCent THEN q + 1 ELSE q

NoDecision == [recommendation |-> "none"]

\* evaluate_rebalance not in use
RebalIdle ==
    /\ old_positions = <<>>
    /\ new_positions = <<>>
    /\ rb_budget = 0
    /\ rpc = "idle"
    /\ decision = NoDecision

NoBuckets == [budget |-> -1, emergency |-> -1, ops_reserve |-> -1,
              deployable |-> -1, h_max |-> -1, min_ticket |-> -1]

NoPortfolio == [num_positions |-> -1]

\* build_portfolio / compute_budget_buckets not in use
AllocIdle ==
    /\ budget = 0
    /\ cands = <<>>
    /\ pc = "idle"
    /\ buckets = NoBuckets
    /\ ci = 0
    /\ remaining = 0
    /\ positions = <<>>
    /\ portfolio = NoPortfolio

NoBook == [bids |-> <<>>, asks |-> <<>>]

\* compute_impact not in use
ImpactIdle ==
    /\ book = NoBook
    /\ notional = 0
    /\ side = "sell"
    /\ ipc = "idle"
    /\ impact = <<0, 1>>

\* find_max_notional_for_impact not in use
SearchIdle ==
    /\ fm_book = NoBook
    /\ max_impact_pct = <<0, 1>>
    /\ fpc = "idle"
    /\ lo = 0
    /\ hi = 0
    /\ best = 0
    /\ iters = 0
    /\ fm_result = 0

NoScanResult == [deep_scan_cohort |-> -1]

\* build_candidates not in use
ScanIdle ==
    /\ markets = <<>>
    /\ scan_budget = 0
    /\ spc = "idle"
    /\ mi = 0
    /\ pre_filtered = <<>>
    /\ deep_scan_set = <<>>
    /\ ds_idx = 0
    /\ candidates = <<>>
    /\ rejected = <<>>
    /\ scan_result = NoScanResult
    /\ answers = <<>>

\* db.py SCHEMA: the row `INSERT OR IGNORE INTO portfolio_targets (id)` leaves
\* behind, num_positions 0 and run_status NULL; gen 0 says no cycle wrote it.
DefaultTargets == [gen |-> 0, num_positions |-> 0, run_status |-> "NULL"]

NoRun == [cands |-> <<>>, held |-> <<>>, rej |-> <<>>]
NoSnapshot == [positions |-> {}, rejected |-> {}, targets |-> DefaultTargets]
NothingSeen == [query |-> "none", rows |-> {}, old |-> {}, new |-> {}]

\* market_refresh_job not in use; the database as init_db leaves it
WorkerIdle ==
    /\ portfolio_positions = {}
    /\ rejected_markets = {}
    /\ portfolio_targets = DefaultTargets
    /\ rebalance_advice = 0
    /\ wpc = "idle"
    /\ cycle = 0
    /\ run = NoRun
    /\ wi = 0
    /\ before = NoSnapshot
    /\ seen = NothingSeen
    /\ critical_alerts = 0

\* parse_market_data not in use
FeedIdle == ctxs = <<>>

NoDualEma == <<"unset", "unset">>

\* compute_dual_ema not in use
EmaIdle ==
    /\ epochs_8h = <<>>
    /\ epc = "idle"
    /\ dual_ema = NoDualEma

\* aggregate_to_8h_epochs not in use
AggIdle ==
    /\ hourly_history = <<>>
    /\ apc = "idle"
    /\ epochs = <<>>

Callers == {1, 2}
NoVerdict == [from |-> "none", value |-> FALSE]

\* equity.py:16-18 as the module is imported, no caller inside
EquityIdle ==
    /\ symbols_cache = {}
    /\ symbols_last_fetched = 0
    /\ clock = 1
    /\ ticks = 0
    /\ qpc = [c \in Callers |-> "idle"]
    /\ combined = [c \in Callers |-> {}]
    /\ verdict = [c \in Callers |-> NoVerdict]

\* worker.py:263-272: the two scheduled jobs, each run on its own pool thread;
\* both report a failure with send_critical_alert("SYSTEM", ...)
AlertJobs == {"market_refresh", "scanner"}

\* db.py:192-199 an empty alert_history table, no job inside the call
AlertIdle ==
    /\ alert_history = <<>>
    /\ minute = 0
    /\ jpc = [j \in AlertJobs |-> "idle"]

LateIdle == EmaIdle /\ AggIdle /\ EquityIdle /\ AlertIdle

\* Initial values of the variables a component does not use.
NotAllocIdle ==
    RebalIdle /\ ImpactIdle /\ SearchIdle /\ ScanIdle /\ WorkerIdle /\ FeedIdle
    /\ LateIdle
NotRebalIdle ==
    AllocIdle /\ ImpactIdle /\ SearchIdle /\ ScanIdle /\ WorkerIdle /\ FeedIdle
    /\ LateIdle
NotImpactIdle ==
    AllocIdle /\ RebalIdle /\ SearchIdle /\ ScanIdle /\ WorkerIdle /\ FeedIdle
    /\ LateIdle
NotSearchIdle ==
    AllocIdle /\ RebalIdle /\ ImpactIdle /\ ScanIdle /\ WorkerIdle /\ FeedIdle
    /\ LateIdle
NotScanIdle ==
    AllocIdle /\ RebalIdle /\ ImpactIdle /\ SearchIdle /\ WorkerIdle /\ FeedIdle
    /\ LateIdle
NotWorkerIdle ==
    AllocIdle /\ RebalIdle /\ ImpactIdle /\ SearchIdle /\ ScanIdle /\ FeedIdle
    /\ LateIdle
NotFeedIdle ==
    AllocIdle /\ RebalIdle /\ ImpactIdle /\ SearchIdle /\ WorkerIdle
    /\ LateIdle
NotLateIdle ==
    AllocIdle /\ RebalIdle /\ ImpactIdle /\ SearchIdle /\ ScanIdle
    /\ WorkerIdle /\ FeedIdle
NotEmaIdle == NotLateIdle /\ AggIdle /\ EquityIdle /\ AlertIdle
NotAggIdle == NotLateIdle /\ EmaIdle /\ EquityIdle /\ AlertIdle
NotEquityIdle == NotLateIdle /\ EmaIdle /\ AggIdle /\ AlertIdle
NotAlertIdle == NotLateIdle /\ EmaIdle /\ AggIdle /\ EquityIdle

\* A plausible slip: the ops reserve taken in full even when less is left.
compute_budget_buckets_noclamp(bgt) ==
    LET b == Max(bgt * UPerUSD, 0)
        emergency_target == Max(EMERGENCY_FLOOR * UPerUSD,
                                MulFrac(b, EMERGENCY_PCT[1], EMERGENCY_PCT[2]))
        emergency == Min(b, emergency_target)
        rem == Max(0, b - emergency)
        ops_reserve == OPS_RESERVE * UPerUSD
        deployable == rem - ops_reserve
    IN [budget |-> b, emergency |-> emergency, ops_reserve |-> ops_reserve,
        deployable |-> deployable,
        h_max |-> MulFrac(deployable, COLLATERAL_FRACTION[2],
                          COLLATERAL_FRACTION[2] + COLLATERAL_FRACTION[1]),
        min_ticket |-> ALLOCATION_DUST_USD * UPerUSD]

\* A plausible slip: the emergency reserve purely proportional, the floor
\* left out.
compute_budget_buckets_nofloor(bgt) ==
    LET b == Max(bgt * UPerUSD, 0)
        emergency_target == MulFrac(b, EMERGENCY_PCT[1], EMERGENCY_PCT[2])
        emergency == Min(b, emergency_target)
        rem == Max(0, b - emergency)
        ops_reserve == Min(OPS_RESERVE * UPerUSD, rem)
        deployable == rem - ops_reserve
    IN [budget |-> b, emergency |-> emergency, ops_reserve |-> ops_reserve,
        deployable |-> deployable,
        h_max |-> MulFrac(deployable, COLLATERAL_FRACTION[2],
                          COLLATERAL_FRACTION[2] + COLLATERAL_FRACTION[1]),
        min_ticket |-> ALLOCATION_DUST_USD * UPerUSD]

\* config.compute_budget_buckets; every amount of the result is in U.
compute_budget_buckets(bgt) ==
    LET b == Max(bgt * UPerUSD, 0)
        emergency_target == Max(EMERGENCY_FLOOR * UPerUSD,
                                MulFrac(b, EMERGENCY_PCT[1], EMERGENCY_PCT[2]))
        emergency == Min(b, emergency_target)
        rem == Max(0, b - emergency)
        ops_reserve == Min(OPS_RESERVE * UPerUSD, rem)
        deployable == rem - ops_reserve
    IN [budget |-> b, emergency |-> emergency, ops_reserve |-> ops_reserve,
        deployable |-> deployable,
        h_max |-> MulFrac(deployable, COLLATERAL_FRACTION[2],
                          COLLATERAL_FRACTION[2] + COLLATERAL_FRACTION[1]),
        min_ticket |-> ALLOCATION_DUST_USD * UPerUSD]


-----------------------------------------------------------------------------
(* engine.allocator.build_portfolio                                        *)

\* Bounds of the allocator's inputs.
MaxCands == 7

\* Budgets (whole USD): negative, zero, fully absorbed by the emergency
\* bucket (2,000) or by it and the ops reserve (52,000), cap_conc below the
\* dust floor (55,200), h_max = 300 (55,405), h_max / 2 = 5,007.037...
\* (68,519), h_max = 10,040 (68,554), the tests' 80,000 and the default
\* 640,000.
AllocBudgets ==
    {-1000, 0, 2000, 52000, 55200, 55405, 68519, 68554, 80000, 640000}

\* <<cap_oi, cap_vol, cap_impact>> in cents, as Candidate carries them
\* (scanner.py rounds each to 2 decimals): below the dust floor, mid, large.
CapPool == {<<5000, 5000, 5000>>, <<500000, 600000, 700000>>,
            <<30000000, 20000000, 25000000>>}

RECURSIVE SeqsUpTo(_, _)
SeqsUpTo(S, n) ==
    IF n = 0 THEN {<<>>}
    ELSE LET shorter == SeqsUpTo(S, n - 1)
         IN shorter \cup {Append(s, x) : s \in {t \in shorter : Len(t) = n - 1}, x \in S}

\* Candidate lists arrive sorted by score descending (scanner.py:471): the
\* k-th candidate of a list gets score 3000 - 100 * k (hundredths of a percent).
MkCands(caps) ==
    [k \in 1..Len(caps) |->
        [coin |-> k, score |-> 3000 - 100 * k,
         cap_oi |-> caps[k][1], cap_vol |-> caps[k][2], cap_impact |-> caps[k][3]]]

\* allocator.py:87  cap_conc = MAX_CONCENTRATION * h_max   (in U)
CapConc(h_max) == MulFrac(h_max, MAX_CONCENTRATION[1], MAX_CONCENTRATION[2])

\* A plausible slip: the concentration cap left out of the minimum.
CapFinal_noconc(cand, h_max) ==
    Min(cand.cap_oi * UPerCent, Min(cand.cap_vol * UPerCent, cand.cap_impact * UPerCent))

\* allocator.py:88  cap_final = min(cap_oi, cap_vol, cap_impact, cap_conc)  (in U)
CapFinal(cand, h_max) ==
    Min(Min(cand.cap_oi * UPerCent, cand.cap_vol * UPerCent),
        Min(cand.cap_impact * UPerCent, CapConc(h_max)))

\* allocator.py:89  alloc = min(cap_final, remaining)  (in U)
Alloc(cand, h_max, rem) == Min(CapFinal(cand, h_max), rem)

\* A plausible slip: among equal smallest quantities the last one is named.
BindingCap_last_wins(cap_oi, cap_vol, cap_impact, cap_conc, rem) ==
    LET m == Min(Min(Min(cap_oi, cap_vol), Min(cap_impact, cap_conc)), rem)
    IN IF rem = m THEN "budget"
       ELSE IF cap_conc = m THEN "conc"
       ELSE IF cap_impact = m THEN "impact"
       ELSE IF cap_vol = m THEN "vol"
       ELSE "oi"

\* allocator.py:161-173  _binding_cap: min over the dict in insertion order,
\* so the first of oi, vol, impact, conc, budget that attains the minimum.
BindingCap(cap_oi, cap_vol, cap_impact, cap_conc, rem) ==
    LET m == Min(Min(Min(cap_oi, cap_vol), Min(cap_impact, cap_conc)), rem)
    IN IF cap_oi = m THEN "oi"
       ELSE IF cap_vol = m THEN "vol"
       ELSE IF cap_impact = m THEN "impact"
       ELSE IF cap_conc = m THEN "conc"
       ELSE "budget"

\* allocator.py:97-118  the Position appended for cand (amounts in cents).
MkPosition(cand, h_max, rem, rank) ==
    [coin |-> cand.coin,
     rank |-> rank,
     alloc_notional |-> Round2(Alloc(cand, h_max, rem)),
     cap_oi |-> Round2(cand.cap_oi * UPerCent),
     cap_vol |-> Round2(cand.cap_vol * UPerCent),
     cap_impact |-> Round2(cand.cap_impact * UPerCent),
     cap_conc |-> Round2(CapConc(h_max)),
     cap_final |-> Round2(CapFinal(cand, h_max)),
     binding_cap |-> BindingCap(cand.cap_oi * UPerCent, cand.cap_vol * UPerCent,
                                cand.cap_impact * UPerCent, CapConc(h_max), rem),
     net_apr |-> cand.score,
     score |-> cand.score]

\* A plausible slip: `break` written where allocator.py:92 has `continue`.
DustSkipPc_break == "totals"

\* allocator.py:91-92  a dust-sized alloc is skipped with `continue`.
DustSkipPc == "loop"

\* round(x, 2) of a non-negative amount x given in twentieths of a cent.  At an
\* exact tie the double that the code rounds lies just above or just below the
\* tie, depending on the rounding error of the product, so both are possible.
Round2Of20(x) ==
    LET q == x \div 20
        r == x % 20
    IN IF r < 10 THEN {q} ELSE IF r > 10 THEN {q + 1} ELSE {q, q + 1}

InitAlloc ==
    /\ budget \in AllocBudgets
    /\ cands \in {MkCands(caps) : caps \in SeqsUpTo(CapPool, MaxCands)}
    /\ pc = "start"
    /\ buckets = NoBuckets
    /\ ci = 0
    /\ remaining = 0
    /\ positions = <<>>
    /\ portfolio = NoPortfolio
    /\ NotAllocIdle

\* A plausible slip: the empty portfolio returned with every aggregate zero.
BP_Empty_all_zero ==
    /\ pc = "start"
    /\ LET b == compute_budget_buckets(budget)
       IN /\ b.h_max <= 0
          /\ buckets' = b
          /\ portfolio' = [positions |-> <<>>,
                           budget |-> Round2(b.budget),
                           emergency |-> Round2(b.emergency),
                           deployable |-> Round2(b.deployable),
                           h_max |-> Round2(b.h_max),
                           total_hedge_notional |-> 0,
                           perp_collateral |-> 0,
                           coinbase_treasury |-> Round2(b.deployable),
                           coinbase_total |-> 0,
                           portfolio_net_apr |-> 0,
                           portfolio_usd_day |-> 0,
                           num_positions |-> 0]
    /\ pc' = "done"
    /\ UNCHANGED <<budget, cands, ci, remaining, positions>>
    /\ UNCHANGED notAlloc

\* allocator.py:67-76, 176-191  h_max <= 0: return _empty_portfolio(...)
BP_Empty ==
    /\ pc = "start"
    /\ LET b == compute_budget_buckets(budget)
       IN /\ b.h_max <= 0
          /\ buckets' = b
          /\ portfolio' = [positions |-> <<>>,
                           budget |-> Round2(b.budget),
                           emergency |-> Round2(b.emergency),
                           deployable |-> Round2(b.deployable),
                           h_max |-> Round2(b.h_max),
                           total_hedge_notional |-> 0,
                           perp_collateral |-> 0,
                           coinbase_treasury |-> Round2(b.deployable),
                           coinbase_total |-> Round2(b.budget),
                           portfolio_net_apr |-> 0,
                           portfolio_usd_day |-> 0,
                           num_positions |-> 0]
    /\ pc' = "done"
    /\ UNCHANGED <<budget, cands, ci, remaining, positions>>
    /\ UNCHANGED notAlloc

\* allocator.py:67-79  h_max > 0: remaining = h_max, positions = []
BP_Enter ==
    /\ pc = "start"
    /\ LET b == compute_budget_buckets(budget)
       IN /\ b.h_max > 0
          /\ buckets' = b
          /\ remaining' = b.h_max
    /\ positions' = <<>>
    /\ ci' = 1
    /\ pc' = "loop"
    /\ UNCHANGED <<budget, cands, portfolio>>
    /\ UNCHANGED notAlloc

\* allocator.py:81  the for-loop runs out of candidates
BP_Exhausted ==
    /\ pc = "loop"
    /\ ci > Len(cands)
    /\ pc' = "totals"
    /\ UNCHANGED <<budget, cands, buckets, ci, remaining, positions, portfolio>>
    /\ UNCHANGED notAlloc

\* allocator.py:82-83  if len(positions) >= MAX_NAMES: break
BP_BreakNames ==
    /\ pc = "loop"
    /\ ci <= Len(cands)
    /\ Len(positions) >= MAX_NAMES
    /\ pc' = "totals"
    /\ UNCHANGED <<budget, cands, buckets, ci, remaining, positions, portfolio>>
    /\ UNCHANGED notAlloc

\* allocator.py:84-85  if remaining <= dust: break
BP_BreakBudget ==
    /\ pc = "loop"
    /\ ci <= Len(cands)
    /\ Len(positions) < MAX_NAMES
    /\ remaining <= buckets.min_ticket
    /\ pc' = "totals"
    /\ UNCHANGED <<budget, cands, buckets, ci, remaining, positions, portfolio>>
    /\ UNCHANGED notAlloc

\* allocator.py:87-92  if alloc < dust: continue
BP_SkipDust ==
    /\ pc = "loop"
    /\ ci <= Len(cands)
    /\ Len(positions) < MAX_NAMES
    /\ remaining > buckets.min_ticket
    /\ Alloc(cands[ci], buckets.h_max, remaining) < buckets.min_ticket
    /\ pc' = DustSkipPc
    /\ ci' = ci + 1
    /\ UNCHANGED <<budget, cands, buckets, remaining, positions, portfolio>>
    /\ UNCHANGED notAlloc

\* allocator.py:94-119  append the Position, remaining -= alloc
BP_Allocate ==
    /\ pc = "loop"
    /\ ci <= Len(cands)
    /\ Len(positions) < MAX_NAMES
    /\ remaining > buckets.min_ticket
    /\ Alloc(cands[ci], buckets.h_max, remaining) >= buckets.min_ticket
    /\ positions' = Append(positions,
                           MkPosition(cands[ci], buckets.h_max, remaining,
                                      Len(positions) + 1))
    /\ remaining' = remaining - Alloc(cands[ci], buckets.h_max, remaining)
    /\ ci' = ci + 1
    /\ UNCHANGED <<budget, cands, pc, buckets, portfolio>>
    /\ UNCHANGED notAlloc

\* A plausible slip: `=` where `+=` was meant, the total is the last
\* position's notional.
HTotal_last_only(ps) == IF ps = <<>> THEN 0 ELSE ps[Len(ps)].alloc_notional

\* allocator.py:122  h_total = sum(p.alloc_notional for p in positions)  (cents)
HTotal(ps) == SumSeq([k \in 1..Len(ps) |-> ps[k].alloc_notional])

\* allocator.py:128, 136: coinbase_total, the amount that earns
\* DEFAULT_COINBASE_APR, in twentieths of a cent
YieldBase(emergency, ops_reserve, treasury20) ==
    20 * (emergency + ops_reserve) + treasury20

\* allocator.py:130-143: funding_income + coinbase_income - insurance_drag as
\* one fraction.  With net_apr in hundredths of a percent and amounts in
\* cents, portfolio_net_apr in hundredths of a percent is
\*   (20 * sum(net_apr * alloc) + 350 * base20 - 3000 * budget) / (20 * budget)
\* and portfolio_usd_day in cents is the same numerator over 20 * 100 * 100 *
\* 365.  `plus` collects the terms that add, `minus` those that take away.
RECURSIVE FundingIncome(_, _)
FundingIncome(ps, k) ==
    IF k = 0
    THEN [plus |-> <<>>, minus |-> <<>>]
    ELSE LET acc == FundingIncome(ps, k - 1)
             p == ps[k]
         IN IF p.net_apr >= 0
            THEN [acc EXCEPT !.plus =
                     BigAdd(@, BigMul(Big(p.alloc_notional), 20 * p.net_apr))]
            ELSE [acc EXCEPT !.minus =
                     BigAdd(@, BigMul(Big(p.alloc_notional), -20 * p.net_apr))]

NetYield(ps, bgt, base20) ==
    LET f == FundingIncome(ps, Len(ps))
        c == (100 * DEFAULT_COINBASE_APR[1]) \div DEFAULT_COINBASE_APR[2]
        i == (100 * DEFAULT_INSURANCE_BUDGET_PCT[1]) \div DEFAULT_INSURANCE_BUDGET_PCT[2]
        drag == BigMul(Big(bgt), 20 * i)
    IN IF base20 >= 0
       THEN [plus |-> BigAdd(f.plus, BigMul(Big(base20), c)),
             minus |-> BigAdd(f.minus, drag)]
       ELSE [plus |-> f.plus,
             minus |-> BigAdd(BigAdd(f.minus, drag), BigMul(Big(-base20), c))]

\* round(y / d, 2) for y = plus - minus
RoundYield(y, d) ==
    IF BigLeq(y.minus, y.plus)
    THEN BigRound(y.plus, y.minus, d)
    ELSE -BigRound(y.minus, y.plus, d)

DaysPerYear == 365

\* allocator.py:130-143
PortfolioYield(ps, bgt, h_total, base20) ==
    IF bgt > 0 /\ h_total > 0
    THEN LET y == NetYield(ps, bgt, base20)
         IN [net_apr |-> RoundYield(y, Big(20 * bgt)),
             usd_day |-> RoundYield(y, Big(20 * 100 * 100 * DaysPerYear))]
    ELSE [net_apr |-> 0, usd_day |-> 0]

\* allocator.py:121-158  totals and the returned Portfolio (amounts in cents).
\* perp_collateral = 0.35 * h_total and coinbase_treasury = deployable -
\* h_total - perp_collateral are exact in twentieths of a cent.
BP_Totals ==
    /\ pc = "totals"
    /\ LET h_total == HTotal(positions)
           deployable == buckets.deployable \div UPerCent
           emergency == buckets.emergency \div UPerCent
           ops_reserve == buckets.ops_reserve \div UPerCent
           perp20 == h_total * ((20 * COLLATERAL_FRACTION[1]) \div COLLATERAL_FRACTION[2])
           treasury20 == 20 * deployable - 20 * h_total - perp20
           yield == PortfolioYield(positions, buckets.budget \div UPerCent,
                                   h_total,
                                   YieldBase(emergency, ops_reserve, treasury20))
       IN \E pcoll \in Round2Of20(perp20), treas \in Round2Of20(treasury20) :
            portfolio' = [positions |-> positions,
                          budget |-> Round2(buckets.budget),
                          emergency |-> Round2(buckets.emergency),
                          deployable |-> Round2(buckets.deployable),
                          h_max |-> Round2(buckets.h_max),
                          total_hedge_notional |-> h_total,
                          perp_collateral |-> pcoll,
                          coinbase_treasury |-> treas,
                          coinbase_total |-> emergency + ops_reserve + treas,
                          portfolio_net_apr |-> yield.net_apr,
                          portfolio_usd_day |-> yield.usd_day,
                          num_positions |-> Len(positions)]
    /\ pc' = "done"
    /\ UNCHANGED <<budget, cands, buckets, ci, remaining, positions>>
    /\ UNCHANGED notAlloc

NextAlloc ==
    \/ BP_Empty
    \/ BP_Enter
    \/ BP_Exhausted
    \/ BP_BreakNames
    \/ BP_BreakBudget
    \/ BP_SkipDust
    \/ BP_Allocate
    \/ BP_Totals

SpecAlloc == InitAlloc /\ [][NextAlloc]_vars


-----------------------------------------------------------------------------
(* config.compute_budget_buckets on its own                                *)

BudgetStep == 1000
MaxBudgetSteps == 700
MaxNegSteps == 5

\* Whole-USD budgets: a grid from negative to above the default 640,000,
\* and budgets off the grid around the points where a bucket starts to bind.
BudgetInputs ==
    {BudgetStep * k : k \in (0 - MaxNegSteps)..MaxBudgetSteps}
        \cup {1, 160, 4999, 5001, 49999, 50001, 54999, 55001, 55405, 68554,
              624999, 625001}

InitBudget ==
    /\ budget \in BudgetInputs
    /\ pc = "budget"
    /\ buckets = NoBuckets
    /\ cands = <<>>
    /\ ci = 0
    /\ remaining = 0
    /\ positions = <<>>
    /\ portfolio = NoPortfolio
    /\ NotAllocIdle

\* config.py:136-157
ComputeBudgetBuckets ==
    /\ pc = "budget"
    /\ buckets' = compute_budget_buckets(budget)
    /\ pc' = "budget_done"
    /\ UNCHANGED <<budget, cands, ci, remaining, positions, portfolio>>
    /\ UNCHANGED notAlloc

NextBudget == ComputeBudgetBuckets

SpecBudget == InitBudget /\ [][NextBudget]_vars

-----------------------------------------------------------------------------
(* Claims about the budget buckets and the allocator                       *)

\* C1: for every budget B >= 0 the buckets emergency, ops_reserve and
\* deployable returned by compute_budget_buckets(B) sum to B and none of them
\* is negative; for a negative budget every bucket is what it is for B = 0
\* (all zero).
C1_BudgetIdentity ==
    pc = "budget_done" =>
        /\ buckets.emergency + buckets.ops_reserve + buckets.deployable
              = Max(budget, 0) * UPerUSD
        /\ buckets.emergency >= 0
        /\ buckets.ops_reserve >= 0
        /\ buckets.deployable >= 0
        /\ budget < 0 =>
              /\ buckets.budget = 0
              /\ buckets.emergency = 0
              /\ buckets.ops_reserve = 0
              /\ buckets.deployable = 0
              /\ buckets.h_max = 0

\* C1 witness: a budget large enough for all three buckets to be positive.
C1_Witness ==
    /\ pc = "budget_done"
    /\ budget > 0
    /\ buckets.emergency > 0
    /\ buckets.ops_reserve = OPS_RESERVE * UPerUSD
    /\ buckets.deployable > 0

\* C2: every position build_portfolio has appended satisfies
\* alloc_notional <= cap_final and cap_final = min(cap_oi, cap_vol, cap_impact,
\* cap_conc), where cap_conc is MAX_CONCENTRATION x h_max (each field as
\* recorded, i.e. rounded to the cent: cap_conc is within half a cent of
\* h_max / 2).
C2_AllocWithinCaps ==
    pc \in {"loop", "totals", "done"} =>
        \A k \in 1..Len(positions) :
            LET p == positions[k]
            IN /\ p.alloc_notional <= p.cap_final
               /\ p.cap_final = Min(Min(p.cap_oi, p.cap_vol),
                                    Min(p.cap_impact, p.cap_conc))
               /\ Abs(2 * p.cap_conc * UPerCent - buckets.h_max) <= UPerCent

\* C2 witness: a returned portfolio with a position bound by the concentration
\* cap and a later one bound by its own caps.
C2_Witness ==
    /\ pc = "done"
    /\ portfolio.num_positions >= 2
    /\ \E k \in 1..Len(portfolio.positions) :
          /\ portfolio.positions[k].cap_final = portfolio.positions[k].cap_conc
          /\ portfolio.positions[k].cap_conc < portfolio.positions[k].cap_oi
    /\ \E k \in 1..Len(portfolio.positions) :
          portfolio.positions[k].cap_final < portfolio.positions[k].cap_conc

\* C3: the sum of alloc_notional over the positions never exceeds
\* h_max = deployable / (1 + COLLATERAL_FRACTION), after every iteration of the
\* water-fill loop and in the returned portfolio.
C3_SumWithinHMax ==
    pc \in {"loop", "totals", "done"} =>
        HTotal(positions) * UPerCent <= buckets.h_max

\* C3, the part the code keeps: the unrounded running remainder never goes
\* negative.
C3_RemainingNonNegative ==
    pc \in {"loop", "totals", "done"} => remaining >= 0

\* C4: a candidate whose alloc = min(cap_final, remaining) is below the dust
\* floor is skipped without ending the pass (the loop moves on to the next
\* candidate with positions and remaining untouched), and a candidate that is
\* reached with the name limit not met, remaining above the dust floor and an
\* alloc of at least the dust floor receives a position.
C4_DustSkipContinues ==
    [][ (/\ pc = "loop"
         /\ ci <= Len(cands)
         /\ Len(positions) < MAX_NAMES
         /\ remaining > ALLOCATION_DUST_USD * UPerUSD)
        => LET cap == Min(Min(cands[ci].cap_oi, cands[ci].cap_vol) * UPerCent,
                          Min(cands[ci].cap_impact * UPerCent, buckets.h_max \div 2))
               a == Min(cap, remaining)
           IN /\ a < ALLOCATION_DUST_USD * UPerUSD =>
                    /\ pc' = "loop"
                    /\ ci' = ci + 1
                    /\ positions' = positions
                    /\ remaining' = remaining
              /\ a >= ALLOCATION_DUST_USD * UPerUSD =>
                    /\ pc' = "loop"
                    /\ ci' = ci + 1
                    /\ Len(positions') = Len(positions) + 1
                    /\ positions'[Len(positions')].coin = cands[ci].coin
                    /\ positions'[Len(positions')].alloc_notional * UPerCent + UPerCent > a
                    /\ remaining' = remaining - a
      ]_vars

\* C4 witness: a returned portfolio in which a dust-capped candidate holds no
\* position and a later candidate does.
C4_Witness ==
    /\ pc = "done"
    /\ \E j \in 1..Len(cands), k \in 1..Len(cands) :
          /\ j < k
          /\ Min(cands[j].cap_oi, Min(cands[j].cap_vol, cands[j].cap_impact))
                < ALLOCATION_DUST_USD * 100
          /\ \A n \in 1..Len(portfolio.positions) : portfolio.positions[n].coin # cands[j].coin
          /\ \E n \in 1..Len(portfolio.positions) : portfolio.positions[n].coin = cands[k].coin


-----------------------------------------------------------------------------
(* engine.rebalance.evaluate_rebalance                                     *)
(*                                                                         *)
(* Units: alloc_notional in whole USD, net_apr and score in hundredths of  *)
(* a percent.  Gain, cost and threshold are integers in G = 1/3,650,000    *)
(* USD: gain = (dAPR/100) * budget * 7/365 with APR% = sum(apr/100 *       *)
(* alloc/budget) * 100, so the budget cancels and gain = 7 * dW / 3.65e6   *)
(* USD for W = sum(apr_hundredths * alloc); cost = 0.0014 * delta USD      *)
(* = 5110 * delta G.                                                       *)

\* src/config.py constants
TAKER_FEE_PCT == <<45, 100000>>
REBALANCE_FRICTION_BPS == 5
REBALANCE_HORIZON_DAYS == 7
REBALANCE_COST_MULTIPLIER == <<3, 2>>
REBALANCE_MIN_GAIN_USD == 1
\* rebalance.py:44, 102  `delta < 100`: changes below 100 USD are ignored
REBALANCE_DELTA_FLOOR == 100

GPerUSD == 365 * 100 * 100

\* Inputs: the coins, and for each coin of a portfolio one of these
\* <<alloc_notional, net_apr, score>> (net_apr 0 makes the code fall back on
\* score; 1095 is the APR at which gain equals 1.5 x cost).
RebalCoins == {1, 2}
RebalAllocs == {5000, 5099, 5100}
RebalAprs == {1000, 1095, 6000}
RebalEntries ==
    {<<a, r, r>> : a \in RebalAllocs, r \in RebalAprs} \cup {<<5000, 0, 2000>>}
RebalBudgets == {0, 640000}

\* The position lists: one dict per coin held, coins distinct (the
\* portfolio_positions table is keyed by coin), in coin order.
RECURSIVE PositionLists(_)
PositionLists(n) ==
    IF n = 0 THEN {<<>>}
    ELSE LET rest == PositionLists(n - 1)
         IN rest \cup
            {Append(l, [coin |-> n, alloc_notional |-> e[1], net_apr |-> e[2],
                        score |-> e[3]]) : l \in rest, e \in RebalEntries}

\* old_map.get(coin, {}).get("alloc_notional", 0)
AllocOf(ps, coin) ==
    IF \E k \in 1..Len(ps) : ps[k].coin = coin
    THEN ps[CHOOSE k \in 1..Len(ps) : ps[k].coin = coin].alloc_notional
    ELSE 0

CoinsOf(ps) == {ps[k].coin : k \in 1..Len(ps)}

\* rebalance.py:26-52  compute_switching_cost, in G.
\* 2 * TAKER_FEE_PCT * delta + REBALANCE_FRICTION_BPS / 10000 * delta USD
\* = delta * (2 * 45 * 36500 / 100000 ... ) = delta * 5110 G.
CostPerUSD ==
    (2 * TAKER_FEE_PCT[1] * GPerUSD) \div TAKER_FEE_PCT[2]
        + (REBALANCE_FRICTION_BPS * GPerUSD) \div 10000

RECURSIVE SumOver(_, _)
SumOver(S, f) ==
    IF S = {} THEN 0
    ELSE LET x == CHOOSE y \in S : TRUE
         IN f[x] + SumOver(S \ {x}, f)

compute_switching_cost(olds, news) ==
    LET all_coins == CoinsOf(olds) \cup CoinsOf(news)
        cost == [c \in all_coins |->
                    LET delta == Abs(AllocOf(news, c) - AllocOf(olds, c))
                    IN IF delta < REBALANCE_DELTA_FLOOR THEN 0
                       ELSE delta * CostPerUSD]
    IN SumOver(all_coins, cost)

\* rebalance.py:70  (p.get("net_apr", 0) or p.get("score", 0))
AprOf(p) == IF p.net_apr # 0 THEN p.net_apr ELSE p.score

\* rebalance.py:65-73  portfolio_yield times budget: sum(apr * alloc), or 0
\* when the total allocation or the budget is 0.
WeightedApr(ps, bgt) ==
    LET total_alloc == SumSeq([k \in 1..Len(ps) |-> ps[k].alloc_notional])
    IN IF total_alloc = 0 \/ bgt = 0 THEN 0
       ELSE SumSeq([k \in 1..Len(ps) |-> AprOf(ps[k]) * ps[k].alloc_notional])

\* rebalance.py:55-80  compute_expected_gain, in G.
compute_expected_gain(olds, news, bgt) ==
    IF bgt = 0 THEN 0
    ELSE REBALANCE_HORIZON_DAYS * (WeightedApr(news, bgt) - WeightedApr(olds, bgt))

\* rebalance.py:91  threshold = cost * REBALANCE_COST_MULTIPLIER, in G
Threshold(cost) ==
    MulFrac(cost, REBALANCE_COST_MULTIPLIER[1], REBALANCE_COST_MULTIPLIER[2])

\* A plausible slip: the comparison with the threshold made strict.
Recommendation_strict(gain, cost) ==
    IF gain > REBALANCE_MIN_GAIN_USD * GPerUSD /\ gain > Threshold(cost)
    THEN "SWITCH" ELSE "HOLD"

\* rebalance.py:113-126
Recommendation(gain, cost) ==
    IF gain > REBALANCE_MIN_GAIN_USD * GPerUSD /\ gain >= Threshold(cost)
    THEN "SWITCH" ELSE "HOLD"

\* round(x, 2) of an amount x given in G; result in cents.  An exact tie is
\* decided by the rounding error of the double that is rounded, so both
\* neighbours are possible.
Round2OfG(x) ==
    LET d == GPerUSD \div 100
        q == x \div d
        r == x % d
    IN IF 2 * r < d THEN {q} ELSE IF 2 * r > d THEN {q + 1} ELSE {q, q + 1}

\* rebalance.py:93-111  the per-coin change list, coins ascending.
RECURSIVE Changes(_, _, _)
Changes(olds, news, coins) ==
    IF coins = {} THEN <<>>
    ELSE LET c == CHOOSE x \in coins : \A y \in coins : x <= y
             old_alloc == AllocOf(olds, c)
             new_alloc == AllocOf(news, c)
             delta == new_alloc - old_alloc
             rest == Changes(olds, news, coins \ {c})
         IN IF Abs(delta) < REBALANCE_DELTA_FLOOR THEN rest
            ELSE <<[ticker |-> c, old_alloc |-> old_alloc, new_alloc |-> new_alloc,
                    delta |-> delta,
                    action |-> IF old_alloc = 0 THEN "ADD"
                               ELSE IF new_alloc = 0 THEN "REMOVE"
                               ELSE IF delta > 0 THEN "INCREASE" ELSE "DECREASE"]>>
                 \o rest

InitRebal ==
    /\ old_positions \in PositionLists(Cardinality(RebalCoins))
    /\ new_positions \in PositionLists(Cardinality(RebalCoins))
    /\ rb_budget \in RebalBudgets
    /\ rpc = "call"
    /\ decision = NoDecision
    /\ NotRebalIdle

\* rebalance.py:83-135
EvaluateRebalance ==
    /\ rpc = "call"
    /\ LET cost == compute_switching_cost(old_positions, new_positions)
           gain == compute_expected_gain(old_positions, new_positions, rb_budget)
           threshold == Threshold(cost)
       IN \E g \in Round2OfG(gain), c \in Round2OfG(cost), t \in Round2OfG(threshold) :
            decision' = [recommendation |-> Recommendation(gain, cost),
                         expected_gain_usd |-> g,
                         estimated_cost_usd |-> c,
                         threshold_usd |-> t,
                         changes |-> Changes(old_positions, new_positions,
                                             CoinsOf(old_positions)
                                                 \cup CoinsOf(new_positions))]
    /\ rpc' = "done"
    /\ UNCHANGED <<old_positions, new_positions, rb_budget>>
    /\ UNCHANGED notRebal

NextRebal == EvaluateRebalance

SpecRebal == InitRebal /\ [][NextRebal]_vars


-----------------------------------------------------------------------------
(* Claims about the rebalance arbiter                                      *)

SubNoiseDelta ==
    /\ CoinsOf(old_positions) = CoinsOf(new_positions)
    /\ Len(old_positions) = Len(new_positions)
    /\ \A k \in 1..Len(old_positions) :
          /\ old_positions[k].coin = new_positions[k].coin
          /\ old_positions[k].net_apr = new_positions[k].net_apr
          /\ old_positions[k].score = new_positions[k].score
          /\ Abs(new_positions[k].alloc_notional - old_positions[k].alloc_notional)
                < REBALANCE_DELTA_FLOOR

\* C6: two portfolios with the same coins, the same net APRs and per-coin
\* allocation differences all below the noise floor always yield HOLD.
C6_SubNoiseHolds ==
    (rpc = "done" /\ SubNoiseDelta) => decision.recommendation = "HOLD"

-----------------------------------------------------------------------------
(* engine.hyperliquid.compute_impact                                       *)
(*                                                                         *)
(* Units: prices are whole USD per unit, sizes are whole units, notionals  *)
(* are integers in T = 1/800 USD, so that the midpoints of the binary      *)
(* search below and the cents its result is rounded to are all integers.   *)
(* A slippage is the exact rational <<numerator, denominator>> with a      *)
(* positive denominator; 1.0 is returned as <<1, 1>>.                      *)

TPerCent == 2 * 4
TPerUSD  == 100 * TPerCent

One == <<1, 1>>
IsOne(x) == x[1] = x[2]

\* a/b <= c/d for a, c >= 0 and b, d > 0, by the Euclidean expansion, so
\* that no product a * d is formed.
RECURSIVE RatLeq(_, _, _, _)
RatLeq(a, b, c, d) ==
    LET qa == a \div b
        qc == c \div d
        ra == a % b
        rc == c % d
    IN IF qa # qc THEN qa < qc
       ELSE IF ra = 0 THEN TRUE
       ELSE IF rc = 0 THEN FALSE
       ELSE RatLeq(d, rc, b, ra)

Leq(x, y) == RatLeq(x[1], x[2], y[1], y[2])

Level(p, s) == [px |-> p, sz |-> s]

\* sum(l["px"] * l["sz"] for l in levels), in T
RECURSIVE TotalDepth(_)
TotalDepth(levels) ==
    IF levels = <<>> THEN 0
    ELSE Head(levels).px * Head(levels).sz * TPerUSD + TotalDepth(Tail(levels))

\* The for-loop of compute_impact.  total_filled is kept as the rational
\* <<n, d>> standing for total_filled * TPerUSD, which is an integer until
\* the partial fill divides the remaining notional by the level's price.
RECURSIVE Walk(_, _)
Walk(levels, w) ==
    IF levels = <<>> THEN w
    ELSE LET px == Head(levels).px
             sz == Head(levels).sz
             level_notional == px * sz * TPerUSD
         IN IF w.remaining <= level_notional
            THEN [remaining    |-> 0,
                  total_cost   |-> w.total_cost + w.remaining,
                  total_filled |-> IF px > 0
                                   THEN <<w.total_filled[1] * px + w.remaining, px>>
                                   ELSE w.total_filled]
            ELSE Walk(Tail(levels),
                      [remaining    |-> w.remaining - level_notional,
                       total_cost   |-> w.total_cost + level_notional,
                       total_filled |-> <<w.total_filled[1] + sz * TPerUSD, 1>>])

\* A plausible slip: an order the book cannot fill is priced at what was
\* filled.
CouldNotFill_filled_only(w) == w.total_filled[1] <= 0

\* `if total_filled <= 0 or remaining > 0`
CouldNotFill(w) == w.total_filled[1] <= 0 \/ w.remaining > 0

\* vwap = total_cost / total_filled; slippage = abs(vwap - mid) / mid, with
\* mid2 = 2 * mid.
Slippage(w, mid2) ==
    LET vn == w.total_cost * w.total_filled[2]
        vd == w.total_filled[1]
    IN <<Abs(2 * vn - mid2 * vd), mid2 * vd>>

compute_impact(bk, n, sd) ==
    IF bk.bids = <<>> \/ bk.asks = <<>> THEN One
    ELSE LET mid2 == bk.bids[1].px + bk.asks[1].px
         IN IF mid2 <= 0 THEN One
            ELSE LET levels == IF sd = "sell" THEN bk.bids ELSE bk.asks
                     w == Walk(levels, [remaining |-> n, total_cost |-> 0,
                                        total_filled |-> <<0, 1>>])
                 IN IF CouldNotFill(w) THEN One ELSE Slippage(w, mid2)

\* Inputs of compute_impact
MaxLevels == 2
LevelPool == {Level(0, 1), Level(1, 1), Level(2, 1), Level(9, 1), Level(1, 2)}
ImpactNotionals == {0, 1 * TPerUSD, 3 * TPerUSD, 11 * TPerUSD, 40 * TPerUSD}
Sides == {"sell", "buy"}

InitImpact ==
    /\ book \in [bids : SeqsUpTo(LevelPool, MaxLevels),
                 asks : SeqsUpTo(LevelPool, MaxLevels)]
    /\ notional \in ImpactNotionals
    /\ side \in Sides
    /\ ipc = "call"
    /\ impact = <<0, 1>>
    /\ NotImpactIdle

\* hyperliquid.py:66-111
ComputeImpact ==
    /\ ipc = "call"
    /\ impact' = compute_impact(book, notional, side)
    /\ ipc' = "done"
    /\ UNCHANGED <<book, notional, side>>
    /\ UNCHANGED notImpact

NextImpact == ComputeImpact

SpecImpact == InitImpact /\ [][NextImpact]_vars

-----------------------------------------------------------------------------
(* Claims about compute_impact                                             *)

WalkedSide == IF side = "sell" THEN book.bids ELSE book.asks

\* C7: compute_impact fails closed: it returns exactly 1.0 whenever the bid
\* side or the ask side of the book is empty, whenever the mid price is not
\* positive, and whenever the total depth (sum of px * sz) of the side it
\* walks is smaller than the requested notional, for 'sell' and for 'buy'.
C7_FailsClosed ==
    ipc = "done" =>
        ((\/ book.bids = <<>>
          \/ book.asks = <<>>
          \/ book.bids[1].px + book.asks[1].px <= 0
          \/ TotalDepth(WalkedSide) < notional)
            => impact = One)

\* An order larger than the ask side of a two-sided book with a positive
\* mid, walked for 'buy', came back as 1.0.
C7_Witness ==
    /\ ipc = "done"
    /\ book.bids # <<>>
    /\ book.asks # <<>>
    /\ side = "buy"
    /\ book.bids[1].px + book.asks[1].px > 0
    /\ TotalDepth(book.asks) < notional
    /\ TotalDepth(book.asks) > 0
    /\ impact = One

RECURSIVE Descending(_)
Descending(levels) ==
    Len(levels) < 2 \/ (levels[1].px >= levels[2].px /\ Descending(Tail(levels)))

RECURSIVE Ascending(_)
Ascending(levels) ==
    Len(levels) < 2 \/ (levels[1].px <= levels[2].px /\ Ascending(Tail(levels)))

PositiveLevels(levels) ==
    \A k \in 1..Len(levels) : levels[k].px > 0 /\ levels[k].sz > 0

ValidBook(bk) ==
    /\ bk.bids # <<>>
    /\ bk.asks # <<>>
    /\ Descending(bk.bids)
    /\ Ascending(bk.asks)
    /\ PositiveLevels(bk.bids)
    /\ PositiveLevels(bk.asks)

\* C8: for every book with non-empty descending bids and ascending asks,
\* positive prices and sizes, and every notional the walked side can fill
\* in full, compute_impact returns a value in [0, 1], for 'sell' and 'buy'.
C8_ImpactInUnitInterval ==
    (ipc = "done" /\ ValidBook(book) /\ notional <= TotalDepth(WalkedSide))
        => (0 <= impact[1] /\ impact[1] <= impact[2])

-----------------------------------------------------------------------------
(* engine.hyperliquid.find_max_notional_for_impact                         *)
(*                                                                         *)
(* lo, hi, best and mid_val are notionals in T.  A bid depth below 3200    *)
(* USD ends the search within five halvings, and 800 = 32 * 25 makes each  *)
(* of those midpoints an integer in T and an exactly representable double, *)
(* so round(best, 2) rounds the exact value, half to even.                 *)

MAX_IMPACT_PCT == <<1, 400>>
SEARCH_ITERATIONS == 50
SEARCH_MIN_NOTIONAL == 1
SEARCH_PRECISION_USD == 100

\* round(best, 2) of a notional in T; the result is in cents.
Round2OfT(x) ==
    LET q == x \div TPerCent
        r == x % TPerCent
    IN IF 2 * r > TPerCent THEN q + 1
       ELSE IF 2 * r < TPerCent THEN q
       ELSE IF q % 2 = 0 THEN q ELSE q + 1

\* One pass through the body of the for-loop that does not break on
\* mid_val < 1: s holds lo, hi and best.
SearchStep(bk, mx, s) ==
    LET mid_val == (s.lo + s.hi) \div 2
        feasible == Leq(compute_impact(bk, mid_val, "sell"), mx)
    IN [lo   |-> IF feasible THEN mid_val ELSE s.lo,
        hi   |-> IF feasible THEN s.hi ELSE mid_val,
        best |-> IF feasible THEN mid_val ELSE s.best]

\* The for-loop run to its end from s, k iterations done; yields best.
RECURSIVE SearchLoop(_, _, _, _)
SearchLoop(bk, mx, s, k) ==
    IF k >= SEARCH_ITERATIONS THEN s.best
    ELSE IF (s.lo + s.hi) \div 2 < SEARCH_MIN_NOTIONAL * TPerUSD THEN s.best
    ELSE LET s2 == SearchStep(bk, mx, s)
         IN IF s2.hi - s2.lo < SEARCH_PRECISION_USD * TPerUSD THEN s2.best
            ELSE SearchLoop(bk, mx, s2, k + 1)

\* The function as its callers see it; the result is in cents.
find_max_notional_for_impact(bk, mx) ==
    IF bk.bids = <<>> \/ TotalDepth(bk.bids) <= 0 THEN 0
    ELSE Round2OfT(SearchLoop(bk, mx,
                              [lo |-> 0, hi |-> TotalDepth(bk.bids), best |-> 0],
                              0))

\* Inputs of find_max_notional_for_impact
SearchBids ==
    {<<>>, <<Level(0, 5)>>, <<Level(1, 1)>>, <<Level(10, 30)>>}
        \cup {<<Level(b0, s0), Level(b1, s1)>> :
                 b0 \in {10, 11}, s0 \in {35, 45, 133},
                 b1 \in {1, 3, 5}, s1 \in {15, 33, 55}}
SearchAsks == {<<>>, <<Level(11, 1)>>, <<Level(12, 1)>>}
SearchImpacts == {MAX_IMPACT_PCT, <<1, 50>>, <<1, 10>>, <<1, 1>>}

InitSearch ==
    /\ fm_book \in [bids : SearchBids, asks : SearchAsks]
    /\ max_impact_pct \in SearchImpacts
    /\ fpc = "start"
    /\ lo = 0
    /\ hi = 0
    /\ best = 0
    /\ iters = 0
    /\ fm_result = 0
    /\ NotSearchIdle

\* hyperliquid.py:119-125: an empty bid side or a depth that is not positive
FM_ReturnZero ==
    /\ fpc = "start"
    /\ (fm_book.bids = <<>> \/ TotalDepth(fm_book.bids) <= 0)
    /\ fm_result' = 0
    /\ fpc' = "done"
    /\ UNCHANGED <<fm_book, max_impact_pct, lo, hi, best, iters>>
    /\ UNCHANGED notSearch

\* hyperliquid.py:127-128
FM_Begin ==
    /\ fpc = "start"
    /\ fm_book.bids # <<>>
    /\ TotalDepth(fm_book.bids) > 0
    /\ lo' = 0
    /\ hi' = TotalDepth(fm_book.bids)
    /\ best' = 0
    /\ iters' = 0
    /\ fpc' = "loop"
    /\ UNCHANGED <<fm_book, max_impact_pct, fm_result>>
    /\ UNCHANGED notSearch

\* hyperliquid.py:131-134: `if mid_val < 1: break`
FM_BreakSmall ==
    /\ fpc = "loop"
    /\ iters < SEARCH_ITERATIONS
    /\ (lo + hi) \div 2 < SEARCH_MIN_NOTIONAL * TPerUSD
    /\ fpc' = "return"
    /\ UNCHANGED <<fm_book, max_impact_pct, lo, hi, best, iters, fm_result>>
    /\ UNCHANGED notSearch

\* hyperliquid.py:131-142: one iteration, with the break on convergence
FM_Iterate ==
    /\ fpc = "loop"
    /\ iters < SEARCH_ITERATIONS
    /\ (lo + hi) \div 2 >= SEARCH_MIN_NOTIONAL * TPerUSD
    /\ LET s2 == SearchStep(fm_book, max_impact_pct,
                            [lo |-> lo, hi |-> hi, best |-> best])
       IN /\ best' = s2.best
          /\ lo' = s2.lo
          /\ hi' = s2.hi
    /\ iters' = iters + 1
    /\ fpc' = IF hi' - lo' < SEARCH_PRECISION_USD * TPerUSD
              THEN "return" ELSE "loop"
    /\ UNCHANGED <<fm_book, max_impact_pct, fm_result>>
    /\ UNCHANGED notSearch

\* hyperliquid.py:144, reached by a break or when range(50) is exhausted
FM_Return ==
    /\ fpc = "return" \/ (fpc = "loop" /\ iters >= SEARCH_ITERATIONS)
    /\ fm_result' = Round2OfT(best)
    /\ fpc' = "done"
    /\ UNCHANGED <<fm_book, max_impact_pct, lo, hi, best, iters>>
    /\ UNCHANGED notSearch

NextSearch ==
    \/ FM_ReturnZero
    \/ FM_Begin
    \/ FM_BreakSmall
    \/ FM_Iterate
    \/ FM_Return

SpecSearch == InitSearch /\ [][NextSearch]_vars

-----------------------------------------------------------------------------
(* Claims about find_max_notional_for_impact                               *)

RECURSIVE Boundaries(_, _)
Boundaries(levels, acc) ==
    IF levels = <<>> THEN {}
    ELSE LET b == acc + Head(levels).px * Head(levels).sz * TPerUSD
         IN {b} \cup Boundaries(Tail(levels), b)

\* The notionals at which the claims compare impacts: the level boundaries
\* of the bid side and every 32nd of its depth.
ProbeNotionals(bk) ==
    LET D == TotalDepth(bk.bids)
    IN Boundaries(bk.bids, 0) \cup {(D \div 32) * k : k \in 1..32}

ImpactNonDecreasing(bk) ==
    \A m, n \in ProbeNotionals(bk) :
        (0 < m /\ m <= n) =>
            Leq(compute_impact(bk, m, "sell"), compute_impact(bk, n, "sell"))

\* C9: find_max_notional_for_impact returns 0 when the bid side is empty or
\* its total depth is not positive; otherwise, on a book whose impact is
\* non-decreasing in the notional, it returns r in [0, total_bid_depth] with
\* r = 0 or compute_impact(book, r, 'sell') <= max_impact, and no notional
\* in [r + 100, total_bid_depth] has an impact <= max_impact.
C9_MaxNotionalWithinImpact ==
    fpc = "done" =>
        LET D == TotalDepth(fm_book.bids)
            r == fm_result * TPerCent
        IN /\ (fm_book.bids = <<>> \/ D <= 0) => fm_result = 0
           /\ (fm_book.bids # <<>> /\ D > 0 /\ ImpactNonDecreasing(fm_book)) =>
                 /\ 0 <= r
                 /\ r <= D
                 /\ \/ r = 0
                    \/ Leq(compute_impact(fm_book, r, "sell"), max_impact_pct)
                 /\ \A n \in ProbeNotionals(fm_book)
                              \cup {r + SEARCH_PRECISION_USD * TPerUSD} :
                        (r + SEARCH_PRECISION_USD * TPerUSD <= n /\ n <= D) =>
                            ~Leq(compute_impact(fm_book, n, "sell"),
                                 max_impact_pct)

\* The loop taken step by step returns what the function returns.
FM_StepwiseIsFunction ==
    fpc = "done" =>
        fm_result = find_max_notional_for_impact(fm_book, max_impact_pct)

\* What the search does guarantee: the unrounded best is 0 or a notional the
\* search has tested and found within max_impact.
C9_BestWithinImpact ==
    fpc = "done" =>
        (best = 0 \/ Leq(compute_impact(fm_book, best, "sell"), max_impact_pct))

-----------------------------------------------------------------------------
(* engine.scanner.build_candidates                                         *)
(*                                                                         *)
(* Units: funding_apr is a decimal in units of 0.00001, max_leverage a     *)
(* whole number, oi_usd and volume_24h whole USD, a forecast whole percent *)
(* APR; caps and notionals are in T; the fields the code rounds to 2       *)
(* decimals are in hundredths.  Every entry of candidates and rejected     *)
(* carries `market`, the index in the argument list of the market dict the *)
(* entry was made for.  What the network, the database and the symbol      *)
(* directory answer for a cohort member is chosen by the environment.      *)

\* config.MAX_DEEP_SCAN and config.MAX_DEEP_SCAN_HARD, scaled down (the
\* cohort is "the top N, N >= 30", extended "up to a hard ceiling").
MAX_DEEP_SCAN == 1
MAX_DEEP_SCAN_HARD == 2

MIN_MAX_LEVERAGE == 10
OI_CAP_FRACTION == <<5, 100>>
VOLUME_CAP_FRACTION == <<10, 100>>
REBALANCES_PER_YEAR == <<365, 7>>
STOCK_ONLY_MODE == TRUE
NON_STOCK_COINS == {"xyz:GOLD"}

\* config.HEDGE_MAP.get(coin), "" when the coin has no entry
HEDGE_MAP(coin) ==
    CASE coin = "xyz:AAPL" -> "AAPL"
      [] coin = "xyz:AMD"  -> "AMD"
      [] coin = "xyz:MSFT" -> "MSFT"
      [] coin = "xyz:NVDA" -> "NVDA"
      [] coin = "xyz:TSLA" -> "TSLA"
      [] coin = "xyz:GOLD" -> "GLD"
      [] OTHER -> ""

\* config.normalize_coin on the coins of the pool: lower-case prefix,
\* upper-case symbol.
normalize_coin(coin) ==
    CASE coin = "xyz:nvda" -> "xyz:NVDA"
      [] OTHER -> coin

LCM(a, b) == (a \div GCD(a, b)) * b

Reduced(x) == LET g == GCD(x[1], x[2]) IN <<x[1] \div g, x[2] \div g>>

\* round() of the rational n / d (d > 0) to an integer, half to even
RoundDiv(n, d) ==
    LET q == n \div d
        r == n % d
    IN IF 2 * r > d THEN q + 1
       ELSE IF 2 * r < d THEN q
       ELSE IF q % 2 = 0 THEN q ELSE q + 1

\* round((m.get("funding_apr") or 0) * 100, 2), in hundredths of a percent
InstApr(m) == RoundDiv(m.funding_apr, 10)

\* scanner.compute_score: (score, fee_drag, slip_drag) for a forecast f in
\* whole percent and an impact <<n, d>>, each rounded to 2 decimals as the
\* caller stores them.  drag = 2 * x * REBALANCES_PER_YEAR * 100.
compute_score(f, imp) ==
    LET k == <<2 * 100 * REBALANCES_PER_YEAR[1], REBALANCES_PER_YEAR[2]>>
        fee == Reduced(<<k[1] * TAKER_FEE_PCT[1], k[2] * TAKER_FEE_PCT[2]>>)
        i == Reduced(imp)
        slip == Reduced(<<(k[1] \div GCD(k[1], i[2])) * i[1],
                          k[2] * (i[2] \div GCD(k[1], i[2]))>>)
        L == LCM(fee[2], slip[2])
        num == f * L - fee[1] * (L \div fee[2]) - slip[1] * (L \div slip[2])
    IN [score     |-> RoundDiv(100 * num, L),
        fee_drag  |-> RoundDiv(100 * fee[1], fee[2]),
        slip_drag |-> RoundDiv(100 * slip[1], slip[2])]

\* A market dict of parse_market_data
Mkt(c, t, lev, f, vol, oi) ==
    [coin |-> c, ticker |-> t, max_leverage |-> lev, funding_apr |-> f,
     volume_24h |-> vol, oi_usd |-> oi]

\* Inputs of build_candidates
MaxMarkets == 4
MarketPool ==
    {Mkt("xyz:DOGE", "DOGE", 20, 20004, 100000, 100000),
     Mkt("xyz:GOLD", "GOLD", 20, 20004, 100000, 100000),
     Mkt("xyz:AAPL", "AAPL", 5, 20004, 100000, 100000),
     Mkt("xyz:MSFT", "MSFT", 10, -1206, 100000, 100000),
     Mkt("xyz:TSLA", "TSLA", 10, 20004, 200000, 100000),
     Mkt("xyz:nvda", "nvda", 20, 20004, 100000, 100000),
     Mkt("xyz:AMD", "AMD", 50, 10000, 300000, 200000)}
ScanBudgets == {136000}

\* What the environment can answer for one cohort member
ScanBooks == {[bids |-> <<Level(400, 1)>>, asks |-> <<Level(401, 1)>>]}
L2Outcomes == {[ok |-> FALSE, book |-> NoBook]}
                 \cup {[ok |-> TRUE, book |-> b] : b \in ScanBooks}
ScanForecasts == {-5, 12}

\* A plausible slip: the funding gate tried before the leverage gate.
Gate_funding_before_leverage(m) ==
    LET coin == normalize_coin(m.coin)
    IN IF HEDGE_MAP(coin) = "" THEN "missing_hedge_mapping"
       ELSE IF STOCK_ONLY_MODE /\ coin \in NON_STOCK_COINS
            THEN "non_stock_market_excluded"
       ELSE IF m.funding_apr <= 0 THEN "negative/zero instantaneous funding"
       ELSE IF m.max_leverage < MIN_MAX_LEVERAGE THEN "maxLeverage"
       ELSE "pass"

\* The first Phase-1 gate the market fails, "pass" when it fails none
Gate(m) ==
    LET coin == normalize_coin(m.coin)
    IN IF HEDGE_MAP(coin) = "" THEN "missing_hedge_mapping"
       ELSE IF STOCK_ONLY_MODE /\ coin \in NON_STOCK_COINS
            THEN "non_stock_market_excluded"
       ELSE IF m.max_leverage < MIN_MAX_LEVERAGE THEN "maxLeverage"
       ELSE IF m.funding_apr <= 0 THEN "negative/zero instantaneous funding"
       ELSE "pass"

\* One dict of `rejected`.  "None" is the value None, "absent" a key the
\* dict does not have.
Rejection(i, c, t, why, arg, inst, rank, fc, sc, cap) ==
    [market |-> i, coin |-> c, ticker |-> t, reason |-> why, detail |-> arg,
     instant_apr |-> inst, pre_rank |-> rank, forecast_apr |-> fc,
     score |-> sc, cap_final |-> cap]

\* sort key (funding_apr, volume_24h, oi_usd): a strictly above b
KeyGt(a, b) ==
    \/ a.m.funding_apr > b.m.funding_apr
    \/ /\ a.m.funding_apr = b.m.funding_apr
       /\ \/ a.m.volume_24h > b.m.volume_24h
          \/ /\ a.m.volume_24h = b.m.volume_24h
             /\ a.m.oi_usd > b.m.oi_usd

\* list.sort(key, reverse=True) is stable: x goes behind every element
\* whose key is not below its own.
InsertByKey(s, x) ==
    LET pos == Cardinality({k \in 1..Len(s) : ~KeyGt(x, s[k])})
    IN SubSeq(s, 1, pos) \o <<x>> \o SubSeq(s, pos + 1, Len(s))

RECURSIVE SortByKey(_, _)
SortByKey(rest, acc) ==
    IF rest = <<>> THEN acc
    ELSE SortByKey(Tail(rest), InsertByKey(acc, Head(rest)))

InsertByScore(s, x) ==
    LET pos == Cardinality({k \in 1..Len(s) : ~(x.score > s[k].score)})
    IN SubSeq(s, 1, pos) \o <<x>> \o SubSeq(s, pos + 1, Len(s))

RECURSIVE SortByScore(_, _)
SortByScore(rest, acc) ==
    IF rest = <<>> THEN acc
    ELSE SortByScore(Tail(rest), InsertByScore(acc, Head(rest)))

\* scanner.py:312-320: the length of deep_scan_set.  n members are in, k is
\* the next element of the sorted list the extension loop looks at.
RECURSIVE ExtendCohort(_, _, _, _)
ExtendCohort(pf, cutoff, k, n) ==
    IF k > Len(pf) THEN n
    ELSE IF n >= MAX_DEEP_SCAN_HARD THEN n
    ELSE IF pf[k].m.funding_apr < cutoff THEN n
    ELSE ExtendCohort(pf, cutoff, k + 1, n + 1)

\* A plausible slip: the cohort cut at MAX_DEEP_SCAN, ties at the cutoff
\* not taken in.
CohortSize_no_extension(pf) == Min(Len(pf), MAX_DEEP_SCAN)

CohortSize(pf) ==
    IF Len(pf) > MAX_DEEP_SCAN
    THEN ExtendCohort(pf, pf[MAX_DEEP_SCAN].m.funding_apr,
                      MAX_DEEP_SCAN + 1, MAX_DEEP_SCAN)
    ELSE Len(pf)

\* A plausible slip: everything behind the first MAX_DEEP_SCAN is skipped,
\* also what the tie extension took into the cohort.
Skipped_behind_soft_limit(pf, n) ==
    SubSeq(pf, Min(MAX_DEEP_SCAN, Len(pf)) + 1, Len(pf))

\* skipped = pre_filtered[len(deep_scan_set):]
Skipped(pf, n) == SubSeq(pf, n + 1, Len(pf))

\* scanner.py:324-332
SkippedEntries(sk, n) ==
    [k \in 1..Len(sk) |->
        Rejection(sk[k].market, sk[k].m.coin, sk[k].m.ticker,
                  "outside top funding cohort (scanned k)", n,
                  InstApr(sk[k].m), n + k, "None", "None", "None")]

InitScan ==
    /\ markets \in SeqsUpTo(MarketPool, MaxMarkets)
    /\ scan_budget \in ScanBudgets
    /\ spc = "phase1"
    /\ mi = 1
    /\ pre_filtered = <<>>
    /\ deep_scan_set = <<>>
    /\ ds_idx = 0
    /\ candidates = <<>>
    /\ rejected = <<>>
    /\ scan_result = NoScanResult
    /\ answers = <<>>
    /\ NotScanIdle

\* A Phase-1 rejection: append to rejected, `continue`.
Phase1Reject(entry) ==
    /\ rejected' = Append(rejected, entry)
    /\ mi' = mi + 1
    /\ UNCHANGED <<markets, scan_budget, spc, pre_filtered, deep_scan_set,
                   ds_idx, candidates, scan_result, answers>>
    /\ UNCHANGED notScan

\* scanner.py:259-268: no hedge mapping
BC_RejectNoHedge ==
    /\ spc = "phase1"
    /\ mi <= Len(markets)
    /\ Gate(markets[mi]) = "missing_hedge_mapping"
    /\ Phase1Reject(Rejection(mi, normalize_coin(markets[mi].coin),
                              markets[mi].ticker, "missing_hedge_mapping",
                              "absent", InstApr(markets[mi]), "None",
                              "None", "None", "None"))

\* scanner.py:270-277
BC_RejectNonStock ==
    /\ spc = "phase1"
    /\ mi <= Len(markets)
    /\ Gate(markets[mi]) = "non_stock_market_excluded"
    /\ Phase1Reject(Rejection(mi, normalize_coin(markets[mi].coin),
                              markets[mi].ticker, "non_stock_market_excluded",
                              "absent", "absent", "absent",
                              "None", "None", "None"))

\* scanner.py:279-288
BC_RejectLeverage ==
    /\ spc = "phase1"
    /\ mi <= Len(markets)
    /\ Gate(markets[mi]) = "maxLeverage"
    /\ Phase1Reject(Rejection(mi, normalize_coin(markets[mi].coin),
                              markets[mi].ticker,
                              "maxLeverage {max_lev} < {MIN_MAX_LEVERAGE}",
                              <<markets[mi].max_leverage, MIN_MAX_LEVERAGE>>,
                              InstApr(markets[mi]), "None",
                              "None", "None", "None"))

\* scanner.py:290-298
BC_RejectFunding ==
    /\ spc = "phase1"
    /\ mi <= Len(markets)
    /\ Gate(markets[mi]) = "negative/zero instantaneous funding"
    /\ Phase1Reject(Rejection(mi, normalize_coin(markets[mi].coin),
                              markets[mi].ticker,
                              "negative/zero instantaneous funding",
                              "absent", InstApr(markets[mi]), "None",
                              "None", "None", "None"))

\* scanner.py:300
BC_PreFilterPass ==
    /\ spc = "phase1"
    /\ mi <= Len(markets)
    /\ Gate(markets[mi]) = "pass"
    /\ pre_filtered' =
           Append(pre_filtered,
                  [m |-> markets[mi], market |-> mi,
                   hedge_symbol |-> HEDGE_MAP(normalize_coin(markets[mi].coin))])
    /\ mi' = mi + 1
    /\ UNCHANGED <<markets, scan_budget, spc, deep_scan_set, ds_idx,
                   candidates, rejected, scan_result, answers>>
    /\ UNCHANGED notScan

\* scanner.py:302-335: sort, pick the cohort, reject what is behind it
BC_SelectCohort ==
    /\ spc = "phase1"
    /\ mi > Len(markets)
    /\ LET sorted == SortByKey(pre_filtered, <<>>)
           n == CohortSize(sorted)
       IN /\ pre_filtered' = sorted
          /\ deep_scan_set' = SubSeq(sorted, 1, n)
          /\ rejected' = rejected \o SkippedEntries(Skipped(sorted, n), n)
    /\ ds_idx' = 1
    /\ spc' = "phase2"
    /\ UNCHANGED <<markets, scan_budget, mi, candidates, scan_result, answers>>
    /\ UNCHANGED notScan

\* The cohort member Phase 2 is at
Member == deep_scan_set[ds_idx]

InPhase2 == spc = "phase2" /\ ds_idx <= Len(deep_scan_set)

\* What the environment answers for one cohort member: the symbol directory
\* (public), the order-book fetch (l2), the funding history and what is
\* computed from it (history: "raises", "empty", "short" or "ok", and then
\* the forecast f).  A part the code never asks for is "unasked".
Answer(pub, l2, hist, f) == [public |-> pub, l2 |-> l2, history |-> hist, f |-> f]

Unasked == [ok |-> FALSE, book |-> NoBook]

\* A Phase-2 rejection: append to rejected, `continue`.
Phase2Reject(why, arg, fc, sc, cap) ==
    /\ rejected' = Append(rejected,
                          Rejection(Member.market, Member.m.coin,
                                    Member.m.ticker, why, arg,
                                    InstApr(Member.m), ds_idx, fc, sc, cap))
    /\ ds_idx' = ds_idx + 1
    /\ UNCHANGED <<markets, scan_budget, spc, mi, pre_filtered, deep_scan_set,
                   candidates, scan_result>>
    /\ UNCHANGED notScan

\* scanner.py:352-361: is_public_equity(hedge_symbol) answers False
BC_NotPublic ==
    /\ InPhase2
    /\ Phase2Reject("not_in_public_directories", Member.hedge_symbol,
                    "None", "None", "None")
    /\ answers' = Append(answers, Answer(FALSE, Unasked, "unasked", 0))

\* scanner.py:380-388: fetch_funding_history returns an empty list
BC_NoHistory ==
    /\ InPhase2
    /\ Phase2Reject("no funding history", "absent", "None", "None", "None")
    /\ \E l2 \in L2Outcomes :
          answers' = Append(answers, Answer(TRUE, l2, "empty", 0))

\* scanner.py:398-411: compute_dual_ema leaves an EMA unpopulated
BC_InsufficientHistory ==
    /\ InPhase2
    /\ Phase2Reject("insufficient_history", "absent", "None", "None", "None")
    /\ \E l2 \in L2Outcomes :
          answers' = Append(answers, Answer(TRUE, l2, "short", 0))

\* A plausible slip: the exception ends the loop over the cohort.
AfterFundingError_abort == Len(deep_scan_set) + 1

\* scanner.py:427: `continue`, on to the next cohort member
AfterFundingError == ds_idx + 1

\* scanner.py:419-427: the fetch, the aggregation or a db write raises
BC_FundingError ==
    /\ InPhase2
    /\ rejected' = Append(rejected,
                          Rejection(Member.market, Member.m.coin,
                                    Member.m.ticker, "funding data error: {e}",
                                    "absent", InstApr(Member.m), ds_idx,
                                    "None", "None", "None"))
    /\ ds_idx' = AfterFundingError
    /\ UNCHANGED <<markets, scan_budget, spc, mi, pre_filtered, deep_scan_set,
                   candidates, scan_result>>
    /\ UNCHANGED notScan
    /\ \E l2 \in L2Outcomes :
          answers' = Append(answers, Answer(TRUE, l2, "raises", 0))

\* A plausible slip: no impact cap at all when the order book is missing.
CapImpact_no_fallback(l2, cap_oi) ==
    IF l2.ok
    THEN find_max_notional_for_impact(l2.book, MAX_IMPACT_PCT) * TPerCent
    ELSE 0

\* scanner.py:369-376: the impact cap of the fetched book; the OI cap when
\* the fetch raised
CapImpact(l2, cap_oi) ==
    IF l2.ok
    THEN find_max_notional_for_impact(l2.book, MAX_IMPACT_PCT) * TPerCent
    ELSE cap_oi

\* scanner.py:363-376, 429-437: caps, impact at the estimated allocation and
\* score of the member, for the order-book outcome l2 and the forecast f
ScoredFor(mem, l2, f) ==
    LET m == mem.m
        est_alloc == ((compute_budget_buckets(scan_budget).h_max \div MAX_NAMES)
                         \div UPerUSD) * TPerUSD
        cap_oi == MulFrac(m.oi_usd * TPerUSD,
                          OI_CAP_FRACTION[1], OI_CAP_FRACTION[2])
        cap_vol == MulFrac(m.volume_24h * TPerUSD,
                           VOLUME_CAP_FRACTION[1], VOLUME_CAP_FRACTION[2])
        cap_impact == CapImpact(l2, cap_oi)
        preliminary_cap == Min(Min(cap_oi, cap_vol), cap_impact)
        est_position == Min(preliminary_cap, est_alloc)
        impact_at_alloc == compute_impact(l2.book, est_position, "sell")
        sc == compute_score(f, impact_at_alloc)
    IN [cap_oi |-> cap_oi, cap_vol |-> cap_vol, cap_impact |-> cap_impact,
        preliminary_cap |-> preliminary_cap,
        impact_at_alloc |-> Reduced(impact_at_alloc),
        score |-> sc.score, fee_drag |-> sc.fee_drag,
        slip_drag |-> sc.slip_drag]

Scored(l2, f) == ScoredFor(Member, l2, f)

\* scanner.py:439-448: the forecast is not positive
BC_NegativeForecast ==
    /\ InPhase2
    /\ \E l2 \in L2Outcomes, f \in ScanForecasts :
          /\ f <= 0
          /\ Phase2Reject("negative funding forecast", "absent", 100 * f,
                          Scored(l2, f).score,
                          RoundDiv(Scored(l2, f).preliminary_cap, TPerCent))
          /\ answers' = Append(answers, Answer(TRUE, l2, "ok", f))

\* scanner.py:450-468
BC_Candidate ==
    /\ InPhase2
    /\ \E l2 \in L2Outcomes, f \in ScanForecasts :
          /\ f > 0
          /\ LET s == Scored(l2, f)
             IN candidates' =
                  Append(candidates,
                         [market |-> Member.market,
                          coin |-> Member.m.coin,
                          ticker |-> Member.m.ticker,
                          hedge_symbol |-> Member.hedge_symbol,
                          forecast_apr |-> 100 * f,
                          score |-> s.score,
                          fee_drag_apr |-> s.fee_drag,
                          slippage_drag_apr |-> s.slip_drag,
                          cap_oi |-> RoundDiv(s.cap_oi, TPerCent),
                          cap_vol |-> RoundDiv(s.cap_vol, TPerCent),
                          cap_impact |-> RoundDiv(s.cap_impact, TPerCent),
                          oi_usd |-> Member.m.oi_usd,
                          volume_24h |-> Member.m.volume_24h,
                          max_leverage |-> Member.m.max_leverage])
          /\ answers' = Append(answers, Answer(TRUE, l2, "ok", f))
    /\ ds_idx' = ds_idx + 1
    /\ UNCHANGED <<markets, scan_budget, spc, mi, pre_filtered, deep_scan_set,
                   rejected, scan_result>>
    /\ UNCHANGED notScan

\* scanner.py:470-478
BC_Return ==
    /\ spc = "phase2"
    /\ ds_idx > Len(deep_scan_set)
    /\ candidates' = SortByScore(candidates, <<>>)
    /\ scan_result' = [candidates |-> candidates',
                       rejected |-> rejected,
                       deep_scan_cohort |-> Len(deep_scan_set)]
    /\ spc' = "done"
    /\ UNCHANGED <<markets, scan_budget, mi, pre_filtered, deep_scan_set,
                   ds_idx, rejected, answers>>
    /\ UNCHANGED notScan

NextScan ==
    \/ BC_RejectNoHedge
    \/ BC_RejectNonStock
    \/ BC_RejectLeverage
    \/ BC_RejectFunding
    \/ BC_PreFilterPass
    \/ BC_SelectCohort
    \/ BC_NotPublic
    \/ BC_NoHistory
    \/ BC_InsufficientHistory
    \/ BC_FundingError
    \/ BC_NegativeForecast
    \/ BC_Candidate
    \/ BC_Return

SpecScan == InitScan /\ [][NextScan]_vars

-----------------------------------------------------------------------------
(* Claims about build_candidates                                           *)

\* How many entries of the list were made for market i
EntriesFor(list, i) == Cardinality({k \in 1..Len(list) : list[k].market = i})

\* C10: every market passed to build_candidates ends in exactly one outcome:
\* it appears exactly once in ScanResult.candidates or exactly once in
\* ScanResult.rejected, never in both and never in neither, so
\* len(candidates) + len(rejected) = len(markets), for every input and every
\* combination of fetch successes and failures of the cohort members.
C10_ExactlyOneOutcome ==
    spc = "done" =>
        /\ \A i \in 1..Len(markets) :
              EntriesFor(scan_result.candidates, i)
                  + EntriesFor(scan_result.rejected, i) = 1
        /\ Len(scan_result.candidates) + Len(scan_result.rejected)
              = Len(markets)

\* A scan that returned with a candidate, a cohort member whose funding
\* fetch failed, a market left behind the cohort, and a market rejected by a
\* Phase-1 gate.
C10_Witness ==
    /\ spc = "done"
    /\ Len(scan_result.candidates) >= 1
    /\ \E k \in 1..Len(scan_result.rejected) :
          scan_result.rejected[k].reason = "funding data error: {e}"
    /\ \E k \in 1..Len(scan_result.rejected) :
          scan_result.rejected[k].reason
              = "outside top funding cohort (scanned k)"
    /\ \E k \in 1..Len(scan_result.rejected) :
          scan_result.rejected[k].reason = "missing_hedge_mapping"

\* The outcome of the cohort member mem of 1-based rank `rank` as its own
\* answers a decide it, whatever the other members were answered.
MemberOutcome(mem, rank, a) ==
    LET reject(why, arg, fc, sc, cap) ==
            [candidate |-> FALSE,
             entry |-> Rejection(mem.market, mem.m.coin, mem.m.ticker, why,
                                 arg, InstApr(mem.m), rank, fc, sc, cap)]
        s == ScoredFor(mem, a.l2, a.f)
    IN IF ~a.public
       THEN reject("not_in_public_directories", mem.hedge_symbol,
                   "None", "None", "None")
       ELSE IF a.history = "empty"
       THEN reject("no funding history", "absent", "None", "None", "None")
       ELSE IF a.history = "short"
       THEN reject("insufficient_history", "absent", "None", "None", "None")
       ELSE IF a.history = "raises"
       THEN reject("funding data error: {e}", "absent", "None", "None", "None")
       ELSE IF a.f <= 0
       THEN reject("negative funding forecast", "absent", 100 * a.f, s.score,
                   RoundDiv(s.preliminary_cap, TPerCent))
       ELSE [candidate |-> TRUE,
             entry |-> [market |-> mem.market,
                        coin |-> mem.m.coin,
                        ticker |-> mem.m.ticker,
                        hedge_symbol |-> mem.hedge_symbol,
                        forecast_apr |-> 100 * a.f,
                        score |-> s.score,
                        fee_drag_apr |-> s.fee_drag,
                        slippage_drag_apr |-> s.slip_drag,
                        cap_oi |-> RoundDiv(s.cap_oi, TPerCent),
                        cap_vol |-> RoundDiv(s.cap_vol, TPerCent),
                        cap_impact |-> RoundDiv(s.cap_impact, TPerCent),
                        oi_usd |-> mem.m.oi_usd,
                        volume_24h |-> mem.m.volume_24h,
                        max_leverage |-> mem.m.max_leverage]]

\* The entries of the list made for market i
EntriesOf(list, i) == {k \in 1..Len(list) : list[k].market = i}

\* C11: failure isolation in the deep scan: when fetching or processing the
\* funding history fails for a cohort member, build_candidates still returns,
\* that member is in rejected with the error detail, and every other cohort
\* member has the outcome (candidate or rejection, with the same values) that
\* its own answers give it, i.e. the one it has when nothing fails.
C11_FailureIsolated ==
    spc = "done" =>
        /\ Len(answers) = Len(deep_scan_set)
        /\ \A j \in 1..Len(deep_scan_set) :
              LET mem == deep_scan_set[j]
                  out == MemberOutcome(mem, j, answers[j])
                  list == IF out.candidate THEN scan_result.candidates
                          ELSE scan_result.rejected
              IN /\ EntriesOf(list, mem.market) # {}
                 /\ \A k \in EntriesOf(list, mem.market) : list[k] = out.entry
                 /\ answers[j].history = "raises" =>
                       /\ ~out.candidate
                       /\ out.entry.reason = "funding data error: {e}"

\* A scan that returned after the funding history of the first cohort member
\* raised and the second member became a candidate.
C11_Witness ==
    /\ spc = "done"
    /\ Len(deep_scan_set) = 2
    /\ answers[1].history = "raises"
    /\ answers[2].history = "ok"
    /\ \E k \in 1..Len(scan_result.candidates) :
          scan_result.candidates[k].market = deep_scan_set[2].market
    /\ \E k \in 1..Len(scan_result.rejected) :
          /\ scan_result.rejected[k].market = deep_scan_set[1].market
          /\ scan_result.rejected[k].reason = "funding data error: {e}"

(***************************************************************************)
(* worker.market_refresh_job and the tables it rewrites (db.py).           *)
(*                                                                         *)
(* Every function of db.py runs inside its own `with get_db()` block,      *)
(* which commits when the block ends: each call below is one committed     *)
(* transaction, and a reader with its own connection (ui.py) can run a     *)
(* query between any two of them.  A row is abstracted to its key, its     *)
(* rank and the number of the cycle that wrote it.                         *)
(***************************************************************************)

MaxCycles == 2

Coins == <<"xyz:TSLA", "xyz:NVDA">>

Row(coin, rank, gen) == [coin |-> coin, rank |-> rank, gen |-> gen]

\* What scanner.build_candidates and allocator.build_portfolio can hand to
\* the job (worker.py:50, 58): every market is rejected or is a candidate,
\* and a candidate is given a position or is left without one.
Select(fate, what) == SelectSeq(Coins, LAMBDA c : fate[c] \in what)

Outcomes ==
    { [cands |-> Select(fate, {"held", "unfunded"}),
       held  |-> Select(fate, {"held"}),
       rej   |-> Select(fate, {"rejected"})] :
        fate \in [{Coins[i] : i \in 1..Len(Coins)} ->
                    {"held", "unfunded", "rejected"}] }

\* db.py:373-375 and 402-404, DELETE FROM <table>
clear_portfolio_positions == {}
clear_rejected_markets == {}

\* db.py:378-389 and 407-418, INSERT ... ON CONFLICT(coin) DO UPDATE
Upsert(table, row) == {r \in table : r.coin # row.coin} \cup {row}
upsert_portfolio_position(row) == Upsert(portfolio_positions, row)
upsert_rejected_market(row) == Upsert(rejected_markets, row)

\* db.py:392-397 and 421-426: one SELECT, the rows committed so far
get_portfolio_positions == portfolio_positions
get_rejected_markets == rejected_markets

\* A plausible slip: every cycle without a position reported alike.
RunStatus_positions_only(r) ==
    IF Len(r.held) > 0 THEN "success" ELSE "no_candidates"

\* worker.py:125-131
RunStatus(r) ==
    IF Len(r.held) > 0 THEN "success"
    ELSE IF Len(r.cands) > 0 THEN "partial"
    ELSE "no_candidates"

\* The complete result sets the running cycle means to write.
NewPositions == {Row(run.held[i], i, cycle) : i \in 1..Len(run.held)}
NewRejected == {Row(run.rej[i], i, cycle) : i \in 1..Len(run.rej)}
NewTargets ==
    [gen |-> cycle, num_positions |-> Len(run.held), run_status |-> RunStatus(run)]

Snapshot ==
    [positions |-> portfolio_positions, rejected |-> rejected_markets,
     targets |-> portfolio_targets]

InitWorker ==
    /\ WorkerIdle
    /\ NotWorkerIdle

\* worker.py:22-66: the scheduler invokes the job (max_instances=1); it
\* fetches and parses the markets, scans them and builds the portfolio.
W_Begin ==
    /\ wpc \in {"idle", "done", "failed"}
    /\ cycle < MaxCycles
    /\ cycle' = cycle + 1
    /\ before' = Snapshot
    /\ \E r \in Outcomes : run' = r
    /\ wi' = 0
    /\ wpc' = "rebalance"
    /\ UNCHANGED <<portfolio_positions, rejected_markets, portfolio_targets,
                   rebalance_advice, seen, critical_alerts, notWorker>>

\* worker.py:68-85: the advisory decision of this cycle is stored
W_Rebalance ==
    /\ wpc = "rebalance"
    /\ rebalance_advice' = cycle
    /\ wpc' = "clear_positions"
    /\ UNCHANGED <<portfolio_positions, rejected_markets, portfolio_targets,
                   cycle, run, wi, before, seen, critical_alerts, notWorker>>

\* worker.py:88
W_ClearPositions ==
    /\ wpc = "clear_positions"
    /\ portfolio_positions' = clear_portfolio_positions
    /\ wi' = 1
    /\ wpc' = "insert_positions"
    /\ UNCHANGED <<rejected_markets, portfolio_targets, rebalance_advice,
                   cycle, run, before, seen, critical_alerts, notWorker>>

\* worker.py:89-110, one turn of the loop
W_UpsertPosition ==
    /\ wpc = "insert_positions"
    /\ wi <= Len(run.held)
    /\ portfolio_positions' = upsert_portfolio_position(Row(run.held[wi], wi, cycle))
    /\ wi' = wi + 1
    /\ UNCHANGED <<rejected_markets, portfolio_targets, rebalance_advice,
                   wpc, cycle, run, before, seen, critical_alerts, notWorker>>

\* worker.py:113
W_ClearRejected ==
    /\ wpc = "insert_positions"
    /\ wi > Len(run.held)
    /\ rejected_markets' = clear_rejected_markets
    /\ wi' = 1
    /\ wpc' = "insert_rejected"
    /\ UNCHANGED <<portfolio_positions, portfolio_targets, rebalance_advice,
                   cycle, run, before, seen, critical_alerts, notWorker>>

\* worker.py:114-123, one turn of the loop
W_UpsertRejected ==
    /\ wpc = "insert_rejected"
    /\ wi <= Len(run.rej)
    /\ rejected_markets' = upsert_rejected_market(Row(run.rej[wi], wi, cycle))
    /\ wi' = wi + 1
    /\ UNCHANGED <<portfolio_positions, portfolio_targets, rebalance_advice,
                   wpc, cycle, run, before, seen, critical_alerts, notWorker>>

\* worker.py:125-148
W_UpdateTargets ==
    /\ wpc = "insert_rejected"
    /\ wi > Len(run.rej)
    /\ portfolio_targets' = NewTargets
    /\ wpc' = "alerts"
    /\ UNCHANGED <<portfolio_positions, rejected_markets, rebalance_advice,
                   cycle, run, wi, before, seen, critical_alerts, notWorker>>

\* worker.py:150-160: _evaluate_alerts swallows its own exceptions
W_Finish ==
    /\ wpc = "alerts"
    /\ wpc' = "done"
    /\ UNCHANGED <<portfolio_positions, rejected_markets, portfolio_targets,
                   rebalance_advice, cycle, run, wi, before, seen,
                   critical_alerts, notWorker>>

\* worker.py:162-164: the statement the job is at raises (the HTTP fetch, a
\* database error, ...).  get_db rolls back the one statement that raised;
\* what earlier calls committed stays.  The handler logs and alerts.
W_Except ==
    /\ wpc \in {"rebalance", "clear_positions", "insert_positions",
                "insert_rejected"}
    /\ critical_alerts' = critical_alerts + 1
    /\ wpc' = "failed"
    /\ UNCHANGED <<portfolio_positions, rejected_markets, portfolio_targets,
                   rebalance_advice, cycle, run, wi, before, seen, notWorker>>

\* ui.py:89
R_Positions ==
    /\ cycle > 0
    /\ seen' = [query |-> "positions", rows |-> get_portfolio_positions,
                old |-> before.positions, new |-> NewPositions]
    /\ UNCHANGED <<portfolio_positions, rejected_markets, portfolio_targets,
                   rebalance_advice, wpc, cycle, run, wi, before,
                   critical_alerts, notWorker>>

\* ui.py:90
R_Rejected ==
    /\ cycle > 0
    /\ seen' = [query |-> "rejected", rows |-> get_rejected_markets,
                old |-> before.rejected, new |-> NewRejected]
    /\ UNCHANGED <<portfolio_positions, rejected_markets, portfolio_targets,
                   rebalance_advice, wpc, cycle, run, wi, before,
                   critical_alerts, notWorker>>

NextWorker ==
    \/ W_Begin
    \/ W_Rebalance
    \/ W_ClearPositions
    \/ W_UpsertPosition
    \/ W_ClearRejected
    \/ W_UpsertRejected
    \/ W_UpdateTargets
    \/ W_Finish
    \/ W_Except
    \/ R_Positions
    \/ R_Rejected

SpecWorker == InitWorker /\ [][NextWorker]_vars

\* C12: whenever the dashboard queries one of the two tables, the rows it gets
\* are either the complete set the table held when the running cycle began or
\* the complete set the running cycle writes - never a part of a set, never
\* a mixture.
C12_ReaderSeesCompleteSet ==
    seen.query # "none" => seen.rows = seen.old \/ seen.rows = seen.new

\* C13: when market_refresh_job ends in its exception handler, the three
\* persisted tables are what they were when the cycle began.
C13_FailureKeepsLastKnownGood ==
    wpc = "failed" => Snapshot = before

-----------------------------------------------------------------------------
(* build_candidates on markets that fail several Phase-1 gates at once     *)

\* The condition of each gate, taken on its own
FailsHedge(m) == HEDGE_MAP(normalize_coin(m.coin)) = ""
FailsStockOnly(m) == STOCK_ONLY_MODE /\ normalize_coin(m.coin) \in NON_STOCK_COINS
FailsLeverage(m) == m.max_leverage < MIN_MAX_LEVERAGE
FailsFunding(m) == m.funding_apr <= 0

FailsSomeGate(m) ==
    FailsHedge(m) \/ FailsStockOnly(m) \/ FailsLeverage(m) \/ FailsFunding(m)

\* Every combination of an unmapped, a non-stock or a mapped stock coin with
\* a leverage below or at the minimum and a funding below, at or above zero.
MaxGateMarkets == 2
GatePool ==
    {Mkt(c, c, lev, f, 100000, 100000) :
        c \in {"xyz:DOGE", "xyz:GOLD", "xyz:AAPL"},
        lev \in {5, 10},
        f \in {-1206, 0, 20004}}

InitGates ==
    /\ markets \in SeqsUpTo(GatePool, MaxGateMarkets)
    /\ scan_budget \in ScanBudgets
    /\ spc = "phase1"
    /\ mi = 1
    /\ pre_filtered = <<>>
    /\ deep_scan_set = <<>>
    /\ ds_idx = 0
    /\ candidates = <<>>
    /\ rejected = <<>>
    /\ scan_result = NoScanResult
    /\ answers = <<>>
    /\ NotScanIdle

SpecGates == InitGates /\ [][NextScan]_vars

\* C14: a market that fails one or more Phase-1 gates has, once the loop is
\* past it, exactly one rejection, whose reason is that of the first gate it
\* fails in the order hedge mapping, stock-only, leverage (with the observed
\* and the minimum value), funding; and it never enters pre_filtered or the
\* deep-scan cohort.
C14_FirstFailedGate ==
    \A i \in 1..Len(markets) :
        LET m == markets[i]
        IN (FailsSomeGate(m) /\ (spc # "phase1" \/ i < mi)) =>
              /\ Cardinality(EntriesOf(rejected, i)) = 1
              /\ \A k \in EntriesOf(rejected, i) :
                    IF FailsHedge(m)
                    THEN rejected[k].reason = "missing_hedge_mapping"
                    ELSE IF FailsStockOnly(m)
                    THEN rejected[k].reason = "non_stock_market_excluded"
                    ELSE IF FailsLeverage(m)
                    THEN /\ rejected[k].reason
                               = "maxLeverage {max_lev} < {MIN_MAX_LEVERAGE}"
                         /\ rejected[k].detail
                               = <<m.max_leverage, MIN_MAX_LEVERAGE>>
                    ELSE rejected[k].reason
                               = "negative/zero instantaneous funding"
              /\ EntriesOf(pre_filtered, i) = {}
              /\ EntriesOf(deep_scan_set, i) = {}
              /\ EntriesOf(candidates, i) = {}

\* A finished scan of a market that fails the leverage and the funding gate
\* (rejected for its leverage) next to one that passes and was deep-scanned.
C14_Witness ==
    /\ spc = "done"
    /\ Len(markets) = 2
    /\ ~FailsHedge(markets[1]) /\ ~FailsStockOnly(markets[1])
    /\ FailsLeverage(markets[1]) /\ FailsFunding(markets[1])
    /\ \E k \in EntriesOf(rejected, 1) :
          rejected[k].reason = "maxLeverage {max_lev} < {MIN_MAX_LEVERAGE}"
    /\ ~FailsSomeGate(markets[2])
    /\ Len(deep_scan_set) = 1

-----------------------------------------------------------------------------
(* Cohort selection                                                        *)

Funding(x) == x.m.funding_apr

\* C15: once the cohort is selected, pre_filtered is in descending order of
\* (funding, volume, OI) with ties in input order; the cohort is a prefix of
\* it that holds the first MAX_DEEP_SCAN markets and at most
\* MAX_DEEP_SCAN_HARD; every member behind the first MAX_DEEP_SCAN has a
\* funding not below the cutoff; a market is left out only if its funding is
\* strictly below the cutoff or the cohort is at the ceiling; and each
\* left-out market has exactly one rejection, with the reason 'outside top
\* funding cohort (scanned k)', k the cohort size, and pre_rank its position
\* in the sorted order.
C15_CohortSelection ==
    spc \in {"phase2", "done"} =>
        LET pf == pre_filtered
            n == Len(deep_scan_set)
        IN /\ \A k \in 1..Len(pf) : \A l \in (k + 1)..Len(pf) :
                 /\ ~KeyGt(pf[l], pf[k])
                 /\ ~KeyGt(pf[k], pf[l]) => pf[k].market < pf[l].market
           /\ {pf[k].market : k \in 1..Len(pf)}
                 = {i \in 1..Len(markets) : ~FailsSomeGate(markets[i])}
           /\ n <= Len(pf)
           /\ deep_scan_set = SubSeq(pf, 1, n)
           /\ n >= Min(MAX_DEEP_SCAN, Len(pf))
           /\ n <= MAX_DEEP_SCAN_HARD
           /\ \A k \in (MAX_DEEP_SCAN + 1)..n :
                 Funding(pf[k]) >= Funding(pf[MAX_DEEP_SCAN])
           /\ \A k \in (n + 1)..Len(pf) :
                 /\ \/ Funding(pf[k]) < Funding(pf[MAX_DEEP_SCAN])
                    \/ n = MAX_DEEP_SCAN_HARD
                 /\ Cardinality(EntriesOf(rejected, pf[k].market)) = 1
                 /\ \A e \in EntriesOf(rejected, pf[k].market) :
                       /\ rejected[e].reason
                             = "outside top funding cohort (scanned k)"
                       /\ rejected[e].detail = n
                       /\ rejected[e].pre_rank = k
                       /\ rejected[e].coin = pf[k].m.coin

\* A finished scan of four pre-filtered markets: a tie at the cutoff took a
\* second market into the cohort, a third one at the cutoff stays out because
\* the ceiling is reached, and a fourth one is below the cutoff.
C15_Witness ==
    /\ spc = "done"
    /\ Len(pre_filtered) = 4
    /\ Len(deep_scan_set) = MAX_DEEP_SCAN_HARD
    /\ MAX_DEEP_SCAN < MAX_DEEP_SCAN_HARD
    /\ Funding(pre_filtered[3]) = Funding(pre_filtered[MAX_DEEP_SCAN])
    /\ Funding(pre_filtered[4]) < Funding(pre_filtered[MAX_DEEP_SCAN])
    /\ \E e \in EntriesOf(rejected, pre_filtered[4].market) :
          rejected[e].pre_rank = 4

-----------------------------------------------------------------------------
(***************************************************************************)
(* hyperliquid.parse_market_data feeding build_candidates (worker.py:26-50)*)
(*                                                                         *)
(* A (meta, ctx) pair is one record.  Its funding is what ctx holds under  *)
(* "funding": no key at all, the empty string, a string that is no number, *)
(* or a number, counted in units of 1/4,000,000 per hour so that the       *)
(* annualised value is a whole number of the scanner's 1/100,000.          *)
(***************************************************************************)

HourlyPerApr == 20 * 2

Absent == [kind |-> "absent", value |-> 0]
Empty == [kind |-> "empty", value |-> 0]
NotANumber == [kind |-> "text", value |-> 0]
Number(v) == [kind |-> "number", value |-> v]

Pair(name, lev, f) ==
    [name |-> name, maxLeverage |-> lev, funding |-> f, markPx |-> 100,
     openInterest |-> 1000, dayNtlVlm |-> 100000]

\* float(ctx.get("funding") or 0): a missing key and the empty string give
\* 0.0, a string that is no number raises ValueError
FloatOrZero(raw) ==
    CASE raw.kind = "absent" -> [ok |-> TRUE, value |-> 0]
      [] raw.kind = "empty"  -> [ok |-> TRUE, value |-> 0]
      [] raw.kind = "text"   -> [ok |-> FALSE, value |-> 0]
      [] OTHER               -> [ok |-> TRUE, value |-> raw.value]

\* name.split(":")[-1] on the names of the pool
DisplayTicker(name) ==
    CASE name = "xyz:TSLA" -> "TSLA"
      [] name = "xyz:GOLD" -> "GOLD"
      [] name = "xyz:DOGE" -> "DOGE"
      [] OTHER -> name

\* hyperliquid.py:156-183, the market dict of one pair
MarketOf(p) ==
    Mkt(p.name, DisplayTicker(p.name), p.maxLeverage,
        (FloatOrZero(p.funding).value * 24 * 365) \div HourlyPerApr,
        p.dayNtlVlm, p.openInterest * p.markPx)

\* hyperliquid.py:155-186: pairs that raise ValueError are passed over
RECURSIVE parse_market_data(_)
parse_market_data(pairs) ==
    IF pairs = <<>> THEN <<>>
    ELSE IF FloatOrZero(Head(pairs).funding).ok
         THEN <<MarketOf(Head(pairs))>> \o parse_market_data(Tail(pairs))
         ELSE parse_market_data(Tail(pairs))

MaxPairs == 2
PairPool ==
    {Pair("xyz:DOGE", 20, Number(91)),
     Pair("xyz:GOLD", 20, Number(91)),
     Pair("xyz:TSLA", 5, Number(91))}
    \cup {Pair("xyz:TSLA", 20, f) :
            f \in {Absent, Empty, NotANumber, Number(0), Number(91), Number(-7)}}

InitFeed ==
    /\ ctxs \in SeqsUpTo(PairPool, MaxPairs)
    /\ ScanIdle
    /\ NotFeedIdle

\* worker.py:26-50: parse the feed and call build_candidates on the result
PM_Parse ==
    /\ spc = "idle"
    /\ markets' = parse_market_data(ctxs)
    /\ \E b \in ScanBudgets : scan_budget' = b
    /\ spc' = "phase1"
    /\ mi' = 1
    /\ UNCHANGED <<pre_filtered, deep_scan_set, ds_idx, candidates, rejected,
                   scan_result, answers>>
    /\ UNCHANGED <<ctxs, allocVars, rebalVars, impactVars, searchVars,
                   workerVars, lateVars>>

NextFeed ==
    \/ PM_Parse
    \/ NextScan

SpecFeed == InitFeed /\ [][NextFeed]_vars

FundingIsMissing(p) == p.funding.kind \in {"absent", "empty", "text"}

\* C16: every pair whose funding is absent, empty or not a number has a
\* market dict with funding_missing = True, and when the scan has returned
\* that market is in rejected with the reason 'missing_live_funding'.
C16_MissingFundingDistinguished ==
    spc # "idle" =>
        \A i \in 1..Len(ctxs) :
            FundingIsMissing(ctxs[i]) =>
                /\ \E k \in 1..Len(markets) :
                      /\ markets[k].coin = ctxs[i].name
                      /\ "funding_missing" \in DOMAIN markets[k]
                /\ spc = "done" =>
                      \E k \in 1..Len(rejected) :
                          /\ rejected[k].coin = ctxs[i].name
                          /\ rejected[k].reason = "missing_live_funding"

-----------------------------------------------------------------------------
(* Further claims about compute_budget_buckets                             *)

\* EMERGENCY_PCT x B for a whole-dollar B, in U
PctOf(B) == EMERGENCY_PCT[1] * ((B * UPerUSD) \div EMERGENCY_PCT[2])

\* C17: for every budget B >= 0 the emergency bucket is EMERGENCY_PCT x B,
\* whatever EMERGENCY_FLOOR is.
C17_EmergencyProportional ==
    (pc = "budget_done" /\ budget >= 0) => buckets.emergency = PctOf(budget)

\* x / (1 + COLLATERAL_FRACTION) = y, both in U
IsOverOnePlusCollateral(x, y) ==
    LET den == COLLATERAL_FRACTION[2] + COLLATERAL_FRACTION[1]
        g == GCD(den, COLLATERAL_FRACTION[2])
    IN /\ x % (den \div g) = 0
       /\ y = (x \div (den \div g)) * (COLLATERAL_FRACTION[2] \div g)

\* The derivation of the claim applied to an amount B in U
DerivedFrom(B, bk) ==
    LET target == Max(EMERGENCY_FLOOR * UPerUSD,
                      EMERGENCY_PCT[1] * (B \div EMERGENCY_PCT[2]))
    IN /\ bk.emergency = Max(0, Min(B, target))
       /\ bk.ops_reserve = Min(OPS_RESERVE * UPerUSD, B - bk.emergency)
       /\ bk.deployable = B - bk.emergency - bk.ops_reserve
       /\ IsOverOnePlusCollateral(bk.deployable, bk.h_max)

-----------------------------------------------------------------------------
(* The empty portfolio                                                     *)

-----------------------------------------------------------------------------
(* build_portfolio as a function of its arguments                          *)

\* allocator.py:81-119: the positions the loop ends with, from candidate k
\* on, with rem left and ps appended so far
RECURSIVE Waterfall(_, _, _, _, _)
Waterfall(cs, k, b, rem, ps) ==
    IF k > Len(cs) THEN ps
    ELSE IF Len(ps) >= MAX_NAMES THEN ps
    ELSE IF rem <= b.min_ticket THEN ps
    ELSE IF Alloc(cs[k], b.h_max, rem) < b.min_ticket
         THEN IF DustSkipPc = "loop" THEN Waterfall(cs, k + 1, b, rem, ps)
              ELSE ps
    ELSE Waterfall(cs, k + 1, b, rem - Alloc(cs[k], b.h_max, rem),
                   Append(ps, MkPosition(cs[k], b.h_max, rem, Len(ps) + 1)))

\* build_portfolio(cs, bgt).total_hedge_notional, in cents
TotalHedgeNotional(cs, bgt) ==
    LET b == compute_budget_buckets(bgt)
    IN IF b.h_max <= 0 THEN 0
       ELSE HTotal(Waterfall(cs, 1, b, b.h_max, <<>>))

Front(s) == SubSeq(s, 1, Len(s) - 1)

\* C20: the total hedge notional build_portfolio returns for a budget and a
\* score-ordered candidate list is the function TotalHedgeNotional of the
\* two, and that function is not larger on the list without its last
\* candidate than on the whole list.
C20_WaterfallMonotone ==
    pc = "done" =>
        /\ portfolio.total_hedge_notional = TotalHedgeNotional(cands, budget)
        /\ cands # <<>> =>
              TotalHedgeNotional(Front(cands), budget)
                  <= TotalHedgeNotional(cands, budget)

\* A returned portfolio of three positions whose last candidate got an
\* allocation: without it the total is strictly smaller.
C20_Witness ==
    /\ pc = "done"
    /\ Len(cands) >= 3
    /\ portfolio.num_positions = Len(cands)
    /\ 0 < TotalHedgeNotional(Front(cands), budget)
    /\ TotalHedgeNotional(Front(cands), budget) < portfolio.total_hedge_notional

-----------------------------------------------------------------------------
(* The binding cap                                                         *)

CapNames == <<"oi", "vol", "impact", "conc", "budget">>

\* The five quantities, in U, the loop has in hand for candidate c
FiveQuantities(c, h_max, rem) ==
    <<c.cap_oi * UPerCent, c.cap_vol * UPerCent, c.cap_impact * UPerCent,
      CapConc(h_max), rem>>

\* Inputs that make the quantities tie: all three caps 5,000 USD, two of
\* three caps equal, caps below the dust floor; budgets 0, 68,500 (cap_conc
\* = 5,000 and h_max = 10,000, so that all five quantities tie at the second
\* position) and the tests' 80,000.
MaxTieCands == 7
TieCapPool == {<<500000, 500000, 500000>>, <<20000, 30000, 20000>>,
               <<5000, 5000, 5000>>}
TieBudgets == {0, 68500, 80000}

InitTies ==
    /\ budget \in TieBudgets
    /\ cands \in {MkCands(caps) : caps \in SeqsUpTo(TieCapPool, MaxTieCands)}
    /\ pc = "start"
    /\ buckets = NoBuckets
    /\ ci = 0
    /\ remaining = 0
    /\ positions = <<>>
    /\ portfolio = NoPortfolio
    /\ NotAllocIdle

SpecTies == InitTies /\ [][NextAlloc]_vars

\* C21: whenever build_portfolio appends a position, its binding_cap names a
\* quantity that is the smallest of cap_oi, cap_vol, cap_impact, cap_conc and
\* the remaining capacity at that moment, every quantity earlier in the order
\* oi, vol, impact, conc, budget is strictly larger, and the allocated amount
\* is that smallest value (recorded to the cent).
C21_BindingCapIsSmallest ==
    [][Len(positions') = Len(positions) + 1 =>
          LET p == positions'[Len(positions')]
              q == FiveQuantities(cands[ci], buckets.h_max, remaining)
          IN \E i \in 1..5 :
                /\ p.binding_cap = CapNames[i]
                /\ \A j \in 1..5 : q[i] <= q[j]
                /\ \A j \in 1..(i - 1) : q[j] > q[i]
                /\ p.alloc_notional = Round2(q[i])
                /\ remaining' = remaining - q[i]]_vars

\* The single candidate with caps 5,000 / 5,000 / 5,000 and budget 80,000:
\* one position of exactly 5,000, bound by 'oi'.
C21_Witness ==
    /\ pc = "done"
    /\ budget = 80000
    /\ Len(cands) = 1
    /\ cands[1].cap_oi = 500000
    /\ cands[1].cap_vol = 500000
    /\ cands[1].cap_impact = 500000
    /\ portfolio.num_positions = 1
    /\ portfolio.positions[1].alloc_notional = 500000
    /\ portfolio.positions[1].binding_cap = "oi"

\* All five quantities equal at the second position, which is bound by 'oi'
C21_FiveWayTie ==
    /\ pc = "done"
    /\ budget = 68500
    /\ portfolio.num_positions = 2
    /\ portfolio.positions[2].alloc_notional = 500000
    /\ portfolio.positions[2].cap_conc = 500000
    /\ portfolio.positions[2].cap_oi = 500000
    /\ portfolio.positions[2].binding_cap = "oi"
    /\ remaining = 0

-----------------------------------------------------------------------------
(* scanner.compute_dual_ema (src/engine/scanner.py:138-171)

   The APR of an epoch is a whole number here and an EMA is the exact
   fraction num / den, both kept as numbers of any size (a sequence of limbs,
   lowest first), where the code works in doubles: every claim below is
   about which epochs enter the computation, not about rounding. *)

EMA_3D_EPOCHS == 9
EMA_7D_EPOCHS == 21

\* config.py:33-34: 2 / (N + 1), as the fraction <<numerator, denominator>>
EMA_3D_ALPHA == Reduced(<<2, EMA_3D_EPOCHS + 1>>)
EMA_7D_ALPHA == Reduced(<<2, EMA_7D_EPOCHS + 1>>)

None == [num |-> <<>>, den |-> <<>>]
Float(num, den) == [num |-> num, den |-> den]

\* scanner.py:138-145: ema = values[0]; for v in values[1:]:
\*     ema = alpha * v + (1 - alpha) * ema
\* The value of `ema` after the loop has taken values[2..k].
RECURSIVE EmaLoop(_, _, _)
EmaLoop(values, alpha, k) ==
    IF k = 1
    THEN Float(Big(values[1]), Big(1))
    ELSE LET ema == EmaLoop(values, alpha, k - 1)
         IN IF ema = None  \* never: the test has TLC evaluate ema first
            THEN None
            ELSE Float(BigAdd(BigMul(ema.den, alpha[1] * values[k]),
                              BigMul(ema.num, alpha[2] - alpha[1])),
                       BigMul(ema.den, alpha[2]))

_ema(values, alpha) == EmaLoop(values, alpha, Len(values))

\* A plausible slip: the average run over the whole history.
Recent_whole_history(apr_values, n) == apr_values

\* scanner.py:160,166: apr_values[-n:]
Recent(apr_values, n) ==
    SubSeq(apr_values, Max(1, Len(apr_values) - n + 1), Len(apr_values))

compute_dual_ema(apr_values) ==
    IF Len(apr_values) < EMA_3D_EPOCHS
    THEN <<None, None>>
    ELSE LET ema_3d == _ema(Recent(apr_values, EMA_3D_EPOCHS), EMA_3D_ALPHA)
         IN IF Len(apr_values) < EMA_7D_EPOCHS
            THEN <<ema_3d, None>>
            ELSE <<ema_3d,
                   _ema(Recent(apr_values, EMA_7D_EPOCHS), EMA_7D_ALPHA)>>

MaxEpochs == 23
SpikeApr == 50

\* Epoch lists of every length up to MaxEpochs: a repeating pattern of APRs,
\* with one epoch (none when at = 0) standing out.
EpochList(n, at) ==
    [i \in 1..n |-> IF i = at THEN SpikeApr ELSE ((i * 7) % 5) + ((i % 2) * 10)]

EpochInputs == {EpochList(n, at) : n \in 0..MaxEpochs, at \in 0..MaxEpochs}

InitEma ==
    /\ epochs_8h \in EpochInputs
    /\ epc = "call"
    /\ dual_ema = NoDualEma
    /\ NotEmaIdle

\* scanner.py:156-157
CD_TooShort ==
    /\ epc = "call"
    /\ Len(epochs_8h) < EMA_3D_EPOCHS
    /\ dual_ema' = compute_dual_ema(epochs_8h)
    /\ epc' = "done"
    /\ UNCHANGED <<epochs_8h, notEma>>

\* scanner.py:159-164
CD_Only3d ==
    /\ epc = "call"
    /\ Len(epochs_8h) >= EMA_3D_EPOCHS
    /\ Len(epochs_8h) < EMA_7D_EPOCHS
    /\ dual_ema' = compute_dual_ema(epochs_8h)
    /\ epc' = "done"
    /\ UNCHANGED <<epochs_8h, notEma>>

\* scanner.py:166-171
CD_Both ==
    /\ epc = "call"
    /\ Len(epochs_8h) >= EMA_7D_EPOCHS
    /\ dual_ema' = compute_dual_ema(epochs_8h)
    /\ epc' = "done"
    /\ UNCHANGED <<epochs_8h, notEma>>

NextEma ==
    \/ CD_TooShort
    \/ CD_Only3d
    \/ CD_Both

SpecEma == InitEma /\ [][NextEma]_vars

\* The average of a window written out: the oldest value weighted by
\* (1 - alpha)^(N-1), the i-th by alpha * (1 - alpha)^(N-i).
\* The weight, times alpha[2]^(N-1), of the i-th of N values.
Weight(alpha, N, i) ==
    IF i = 1
    THEN BigPow(alpha[2] - alpha[1], N - 1)
    ELSE BigTimes(BigMul(BigPow(alpha[2] - alpha[1], N - i), alpha[1]),
                  alpha[2], i - 2)

RECURSIVE WeightedSum(_, _, _)
WeightedSum(w, alpha, i) ==
    IF i > Len(w)
    THEN <<>>
    ELSE LET rest == WeightedSum(w, alpha, i + 1)
         IN IF rest = <<>>
            THEN BigMul(Weight(alpha, Len(w), i), w[i])
            ELSE BigAdd(BigMul(Weight(alpha, Len(w), i), w[i]), rest)

SeededAverage(w, alpha) ==
    Float(WeightedSum(w, alpha, 1), BigPow(alpha[2], Len(w) - 1))

LastEpochs(n) == SubSeq(epochs_8h, Len(epochs_8h) - n + 1, Len(epochs_8h))

\* C22: compute_dual_ema returns (absent, absent) for fewer than 9 epochs,
\* (value, absent) for 9 to 20 epochs and (value, value) for 21 or more; the
\* 3-day value is the seeded average of the last 9 epochs alone and the 7-day
\* value that of the last 21 alone, older epochs changing neither.
C22_ColdStart ==
    epc = "done" =>
        LET len == Len(epochs_8h)
        IN /\ len < EMA_3D_EPOCHS => dual_ema = <<None, None>>
           /\ len >= EMA_3D_EPOCHS =>
                 /\ dual_ema[1] # None
                 /\ dual_ema[1] =
                        SeededAverage(LastEpochs(EMA_3D_EPOCHS), EMA_3D_ALPHA)
                 /\ dual_ema[1] =
                        compute_dual_ema(LastEpochs(EMA_3D_EPOCHS))[1]
           /\ len >= EMA_3D_EPOCHS /\ len < EMA_7D_EPOCHS =>
                 dual_ema[2] = None
           /\ len >= EMA_7D_EPOCHS =>
                 /\ dual_ema[2] # None
                 /\ dual_ema[2] =
                        SeededAverage(LastEpochs(EMA_7D_EPOCHS), EMA_7D_ALPHA)
                 /\ dual_ema[2] =
                        compute_dual_ema(LastEpochs(EMA_7D_EPOCHS))[2]

\* 22 epochs, the oldest of them (outside both windows) standing out
C22_Witness ==
    /\ epc = "done"
    /\ Len(epochs_8h) = EMA_7D_EPOCHS + 1
    /\ epochs_8h[1] = SpikeApr
    /\ dual_ema[1] # None
    /\ dual_ema[2] # None
    /\ dual_ema = compute_dual_ema(Tail(epochs_8h))

-----------------------------------------------------------------------------
(* scanner.aggregate_to_8h_epochs (src/engine/scanner.py:78-133)

   A funding sample carries its time either as a number of milliseconds or
   as an ISO string, which may name a UTC offset.  `hour` is the sample's
   instant in whole hours since 00:00 UTC of day 0, `off` the offset its
   string names in hours (0 for a number, for "Z" and for a string with no
   offset), `rate` its hourly funding rate.  The weekend flag, a function of
   epoch_ts alone, is left out. *)

EpochHours == 8
HoursPerDay == 3 * EpochHours

Sample(kind, hour, off, rate) ==
    [kind |-> kind, hour |-> hour, off |-> off, rate |-> rate]

\* scanner.py:94-103: the datetime the entry parses to, as the hours on its
\* own wall clock; fromisoformat keeps the offset of the string
WallClock(e) == e.hour + e.off

\* scanner.py:105-108: epoch_dt.isoformat(), as (date, hour, offset)
EpochKey(e) ==
    [day |-> WallClock(e) \div HoursPerDay,
     hour |-> ((WallClock(e) % HoursPerDay) \div EpochHours) * EpochHours,
     off |-> e.off]

\* The order of the offset suffixes as text: "+00:00" < "+09:00" < "-05:00".
OffsetText(off) == IF off >= 0 THEN <<0, off>> ELSE <<1, -off>>

\* scanner.py:116: sorted() compares the keys as strings
KeyBefore(a, b) ==
    \/ a.day < b.day
    \/ a.day = b.day /\ a.hour < b.hour
    \/ /\ a.day = b.day
       /\ a.hour = b.hour
       /\ \/ OffsetText(a.off)[1] < OffsetText(b.off)[1]
          \/ /\ OffsetText(a.off)[1] = OffsetText(b.off)[1]
             /\ OffsetText(a.off)[2] < OffsetText(b.off)[2]

\* scanner.py:110-112: buckets[epoch_key].append(rate), the dict keeping
\* its keys in the order they were first seen
RECURSIVE Buckets(_, _)
Buckets(history, n) ==
    IF n = 0
    THEN <<>>
    ELSE LET b == Buckets(history, n - 1)
             k == EpochKey(history[n])
             at == {i \in DOMAIN b : b[i].key = k}
         IN IF at = {}
            THEN Append(b, [key |-> k, rates |-> <<history[n].rate>>])
            ELSE [i \in DOMAIN b |->
                     IF i \in at
                     THEN [b[i] EXCEPT !.rates = Append(@, history[n].rate)]
                     ELSE b[i]]

RECURSIVE InsertBucket(_, _)
InsertBucket(s, x) ==
    IF s = <<>> THEN <<x>>
    ELSE IF KeyBefore(x.key, Head(s).key) THEN <<x>> \o s
    ELSE <<Head(s)>> \o InsertBucket(Tail(s), x)

RECURSIVE SortBuckets(_, _)
SortBuckets(rest, acc) ==
    IF rest = <<>> THEN acc
    ELSE SortBuckets(Tail(rest), InsertBucket(acc, Head(rest)))

\* scanner.py:121-123: sum(rates) / len(rates), and that times 24 * 365 * 100
MeanRate(rates) == Reduced(<<SumSeq(rates), Len(rates)>>)
EpochApr(rates) == Reduced(<<SumSeq(rates) * 24 * 365 * 100, Len(rates)>>)

aggregate_to_8h_epochs(history) ==
    LET sorted == SortBuckets(Buckets(history, Len(history)), <<>>)
    IN [i \in DOMAIN sorted |->
           [epoch_ts |-> sorted[i].key,
            rate_8h |-> MeanRate(sorted[i].rates),
            apr |-> EpochApr(sorted[i].rates)]]

MaxSamples == 3

\* Day 1 runs from hour 24 to hour 47.
SamplePool ==
    {Sample("ms", 24, 0, 1), Sample("ms", 27, 0, 3), Sample("ms", 32, 0, 2),
     Sample("ms", 47, 0, -4), Sample("iso", 27, 0, 5), Sample("iso", 27, 9, 1),
     Sample("iso", 24, -5, 3), Sample("iso", 33, 9, 2)}

InitAgg ==
    /\ hourly_history \in SeqsUpTo(SamplePool, MaxSamples)
    /\ apc = "call"
    /\ epochs = <<>>
    /\ NotAggIdle

AG_Aggregate ==
    /\ apc = "call"
    /\ epochs' = aggregate_to_8h_epochs(hourly_history)
    /\ apc' = "done"
    /\ UNCHANGED <<hourly_history, notAgg>>

NextAgg == AG_Aggregate

SpecAgg == InitAgg /\ [][NextAgg]_vars

Orders(n) == {p \in [1..n -> 1..n] : \A i, j \in 1..n : p[i] = p[j] => i = j}
Permuted(s, p) == [i \in DOMAIN s |-> s[p[i]]]

\* The start of the 8-hour UTC bucket a sample or an epoch falls in.
UtcBucket(hour) == (hour \div EpochHours) * EpochHours
EpochStart(e) ==
    e.epoch_ts.day * HoursPerDay + e.epoch_ts.hour - e.epoch_ts.off
RatesIn(bucket) ==
    {i \in DOMAIN hourly_history : UtcBucket(hourly_history[i].hour) = bucket}

RECURSIVE RateSum(_)
RateSum(I) ==
    IF I = {} THEN 0
    ELSE LET i == CHOOSE j \in I : TRUE
         IN hourly_history[i].rate + RateSum(I \ {i})

SameForEveryPermutation ==
    \A p \in Orders(Len(hourly_history)) :
        aggregate_to_8h_epochs(Permuted(hourly_history, p)) = epochs

OneEpochPerUtcBucket ==
    /\ {EpochStart(epochs[i]) : i \in DOMAIN epochs}
           = {UtcBucket(hourly_history[i].hour) : i \in DOMAIN hourly_history}
    /\ \A i, j \in DOMAIN epochs :
           EpochStart(epochs[i]) = EpochStart(epochs[j]) => i = j

RateIsBucketMean ==
    \A i \in DOMAIN epochs :
        LET I == RatesIn(EpochStart(epochs[i]))
        IN I # {} /\ epochs[i].rate_8h = Reduced(<<RateSum(I), Cardinality(I)>>)

StrictlyAscending ==
    \A i \in 1..(Len(epochs) - 1) :
        EpochStart(epochs[i]) < EpochStart(epochs[i + 1])

\* C23: every permutation of the samples yields the same epoch list, which
\* has one epoch per non-empty 8-hour UTC bucket, each with the mean of the
\* rates of the samples of its bucket, in strictly ascending order of bucket
\* start.
C23_OrderIndependentUtcEpochs ==
    apc = "done" =>
        /\ SameForEveryPermutation
        /\ OneEpochPerUtcBucket
        /\ RateIsBucketMean
        /\ StrictlyAscending

\* What the code does keep: the result does not depend on the arrival order,
\* and when every sample is in UTC the rest of C23 holds as well.
C23_HoldsForUtcSamples ==
    apc = "done" =>
        /\ SameForEveryPermutation
        /\ (\A i \in DOMAIN hourly_history : hourly_history[i].off = 0) =>
               /\ OneEpochPerUtcBucket
               /\ RateIsBucketMean
               /\ StrictlyAscending

\* Two samples of the same UTC bucket, one of them written with +09:00
C23_TwoEpochsForOneBucket ==
    /\ apc = "done"
    /\ Len(hourly_history) = 2
    /\ UtcBucket(hourly_history[1].hour) = UtcBucket(hourly_history[2].hour)
    /\ Len(epochs) = 2
    /\ EpochStart(epochs[1]) > EpochStart(epochs[2])

-----------------------------------------------------------------------------
(* The status a cycle leaves behind (src/worker.py:125-148, src/ui.py:92) *)

Statuses == {"no_candidates", "partial", "success"}

\* The status the outcome of a cycle calls for.
StatusFor(r) ==
    CHOOSE st \in Statuses :
        /\ st = "success" <=> r.held # <<>>
        /\ r.cands = <<>> => st = "no_candidates"
        /\ r.cands # <<>> /\ r.held = <<>> => st = "partial"

Completes == wpc = "insert_rejected" /\ wpc' = "alerts"

-----------------------------------------------------------------------------
(* equity.is_public_equity and refresh_public_symbols
   (src/engine/equity.py:43-91)

   Each `with _symbols_lock:` block does no I/O and is one step; the
   download of refresh_public_symbols runs outside the lock. *)

_SYMBOLS_TTL == 86400
_SYMBOLS_RETRY_TTL == 300

MaxTicks == 3
Tickers == {"AAPL", "TSLA"}

\* What the two directory files can bring: nothing (both downloads failed)
\* or a set of symbols.
Directories == {{}, {"AAPL"}, {"AAPL", "TSLA"}}

InitEquity ==
    /\ EquityIdle
    /\ NotEquityIdle

\* equity.py:72-76: the test made under the lock
CacheIsCurrent ==
    LET has_cache == symbols_cache # {}
        ttl == IF has_cache THEN _SYMBOLS_TTL ELSE _SYMBOLS_RETRY_TTL
    IN /\ symbols_last_fetched > 0
       /\ clock - symbols_last_fetched <= ttl

\* time passes
Tick ==
    /\ ticks < MaxTicks
    /\ \E d \in {1, _SYMBOLS_RETRY_TTL, _SYMBOLS_TTL} : clock' = clock + d
    /\ ticks' = ticks + 1
    /\ UNCHANGED <<symbols_cache, symbols_last_fetched, qpc, combined,
                   verdict, notEquity>>

\* equity.py:71-81: the cache is within its TTL, the caller is answered
IPE_Current(c) ==
    /\ qpc[c] = "idle"
    /\ CacheIsCurrent
    /\ \E t \in Tickers :
          verdict' = [verdict EXCEPT ![c] =
                         IF symbols_cache # {}
                         THEN [from |-> "cache", value |-> t \in symbols_cache]
                         ELSE [from |-> "fail_open", value |-> TRUE]]
    /\ qpc' = [qpc EXCEPT ![c] = "done"]
    /\ UNCHANGED <<symbols_cache, symbols_last_fetched, clock, ticks,
                   combined, notEquity>>

\* equity.py:71-84: first call or TTL expired; the caller leaves the lock
\* and calls refresh_public_symbols
IPE_Refresh(c) ==
    /\ qpc[c] = "idle"
    /\ ~CacheIsCurrent
    /\ qpc' = [qpc EXCEPT ![c] = "download"]
    /\ UNCHANGED <<symbols_cache, symbols_last_fetched, clock, ticks,
                   combined, verdict, notEquity>>

\* equity.py:50-52: the two downloads end
RPS_Download(c) ==
    /\ qpc[c] = "download"
    /\ \E d \in Directories : combined' = [combined EXCEPT ![c] = d]
    /\ qpc' = [qpc EXCEPT ![c] = "store"]
    /\ UNCHANGED <<symbols_cache, symbols_last_fetched, clock, ticks,
                   verdict, notEquity>>

\* equity.py:53-62
RPS_Store(c) ==
    /\ qpc[c] = "store"
    /\ symbols_last_fetched' = clock
    /\ symbols_cache' = IF combined[c] # {} THEN combined[c] ELSE symbols_cache
    /\ qpc' = [qpc EXCEPT ![c] = "answer"]
    /\ UNCHANGED <<clock, ticks, combined, verdict, notEquity>>

\* equity.py:86-91
IPE_Answer(c) ==
    /\ qpc[c] = "answer"
    /\ \E t \in Tickers :
          verdict' = [verdict EXCEPT ![c] =
                         IF symbols_cache # {}
                         THEN [from |-> "cache", value |-> t \in symbols_cache]
                         ELSE [from |-> "fail_open", value |-> TRUE]]
    /\ qpc' = [qpc EXCEPT ![c] = "done"]
    /\ UNCHANGED <<symbols_cache, symbols_last_fetched, clock, ticks,
                   combined, notEquity>>

\* the caller has its answer and may call again
IPE_Return(c) ==
    /\ qpc[c] = "done"
    /\ qpc' = [qpc EXCEPT ![c] = "idle"]
    /\ verdict' = [verdict EXCEPT ![c] = NoVerdict]
    /\ combined' = [combined EXCEPT ![c] = {}]
    /\ UNCHANGED <<symbols_cache, symbols_last_fetched, clock, ticks,
                   notEquity>>

NextEquity ==
    \/ Tick
    \/ \E c \in Callers : IPE_Current(c)
    \/ \E c \in Callers : IPE_Refresh(c)
    \/ \E c \in Callers : RPS_Download(c)
    \/ \E c \in Callers : RPS_Store(c)
    \/ \E c \in Callers : IPE_Answer(c)
    \/ \E c \in Callers : IPE_Return(c)

SpecEquity == InitEquity /\ [][NextEquity]_vars

Refreshing(c) == qpc[c] \in {"download", "store"}
StaleButPresent == symbols_cache # {} /\ ~CacheIsCurrent

\* C25: with a non-empty cache past its TTL and one caller refreshing it, a
\* caller that arrives is answered from the cache as it is and starts no
\* download; at most one refresh is in flight at any time.
C25_OneRefreshStaleServed ==
    /\ [](Cardinality({c \in Callers : Refreshing(c)}) <= 1)
    /\ [][\A c \in Callers :
             /\ qpc[c] = "idle"
             /\ qpc'[c] # "idle"
             /\ StaleButPresent
             /\ \E o \in Callers \ {c} : Refreshing(o)
             => /\ qpc'[c] = "done"
                /\ verdict'[c].from = "cache"]_vars

\* Two downloads in flight over a cache that is present and stale
C25_TwoRefreshes ==
    /\ StaleButPresent
    /\ \A c \in Callers : qpc[c] = "download"

-----------------------------------------------------------------------------
(* The deep scan without an order book (src/engine/scanner.py:363-376,
   429-468) *)

\* OI_CAP_FRACTION x OI_USD, in cents
OiCap(m) ==
    RoundDiv(MulFrac(m.oi_usd * TPerUSD, OI_CAP_FRACTION[1], OI_CAP_FRACTION[2]),
             TPerCent)

\* The members already scanned whose order-book fetch failed while their
\* history gave both EMAs and a positive forecast
Degraded ==
    {k \in 1..Len(answers) :
        /\ answers[k].public
        /\ ~answers[k].l2.ok
        /\ answers[k].history = "ok"
        /\ answers[k].f > 0}

FailClosedDrag == compute_score(0, One).slip_drag

\* The impact at the provisional allocation size of the k-th cohort member
ImpactAtAlloc(k) ==
    ScoredFor(deep_scan_set[k], answers[k].l2, answers[k].f).impact_at_alloc

\* C27: a member whose impact at the provisional allocation size is 1 or
\* more (no book, one-sided book, insufficient depth) is rejected and not
\* emitted, so no candidate carries the slippage drag of impact 1.0.
C27_NeverScoredFromFailClosed ==
    /\ \A k \in 1..Len(answers) :
          /\ answers[k].public
          /\ answers[k].history = "ok"
          /\ Leq(One, ImpactAtAlloc(k))
          => /\ EntriesOf(candidates, deep_scan_set[k].market) = {}
             /\ EntriesOf(rejected, deep_scan_set[k].market) # {}
    /\ \A i \in 1..Len(candidates) :
          candidates[i].slippage_drag_apr # FailClosedDrag

\* A returned candidate scored from the impact 1.0 of a missing book
C27_ScoredFromFailClosed ==
    /\ spc = "done"
    /\ \E i \in 1..Len(scan_result.candidates) :
          /\ scan_result.candidates[i].slippage_drag_apr = FailClosedDrag
          /\ scan_result.candidates[i].score < 0

-----------------------------------------------------------------------------
(* The yield of the returned portfolio (src/engine/allocator.py:126-143,
   176-191) *)

\* The yield written out from the fields of the returned portfolio: the
\* positions' net APR weighted by alloc_notional / budget, plus
\* DEFAULT_COINBASE_APR on coinbase_treasury + emergency, minus
\* DEFAULT_INSURANCE_BUDGET_PCT; and that APR / 100 x budget / 365.
StatedYield ==
    LET y == NetYield(portfolio.positions, portfolio.budget,
                      20 * (portfolio.coinbase_treasury + portfolio.emergency))
    IN [net_apr |-> RoundYield(y, Big(20 * portfolio.budget)),
        usd_day |-> RoundYield(y, Big(20 * 100 * 100 * DaysPerYear))]

\* C28: for every budget and candidate list, position allocated or not,
\* portfolio_net_apr is the sum of net_apr x alloc_notional / budget plus
\* DEFAULT_COINBASE_APR x (coinbase_treasury + emergency) / budget minus
\* DEFAULT_INSURANCE_BUDGET_PCT, and portfolio_usd_day is that APR / 100 x
\* budget / 365 (each to the last digit the portfolio keeps).
C28_PortfolioYield ==
    (pc = "done" /\ portfolio.budget > 0) =>
        /\ Abs(portfolio.portfolio_net_apr - StatedYield.net_apr) <= 1
        /\ Abs(portfolio.portfolio_usd_day - StatedYield.usd_day) <= 1

\* One position of 5,000 at 29 % on a budget of 80,000: 3.52 % returned,
\* 3.30 % by the formula
C28_OpsReserveEarns ==
    /\ pc = "done"
    /\ budget = 80000
    /\ portfolio.num_positions = 1
    /\ portfolio.positions[1].alloc_notional = 500000
    /\ portfolio.portfolio_net_apr = 352
    /\ portfolio.portfolio_usd_day = 771
    /\ StatedYield.net_apr = 330

\* No position on a budget of 80,000: 0 returned, 1.78 % by the formula
C28_NothingAllocated ==
    /\ pc = "done"
    /\ budget = 80000
    /\ portfolio.num_positions = 0
    /\ portfolio.portfolio_net_apr = 0
    /\ portfolio.portfolio_usd_day = 0
    /\ StatedYield.net_apr = 178
    /\ StatedYield.usd_day = 390

-----------------------------------------------------------------------------
(* Deployable capital and the returned totals (src/engine/allocator.py:
   121-128) *)

\* C29: the returned portfolio never over-commits deployable capital:
\* total_hedge_notional + perp_collateral <= deployable, coinbase_treasury
\* >= 0, and coinbase_total + total_hedge_notional + perp_collateral = budget
\* (to the cent that round(x, 2) of a tie may go either way).
C29_NeverOverCommits ==
    pc = "done" =>
        /\ portfolio.total_hedge_notional + portfolio.perp_collateral
               <= portfolio.deployable
        /\ portfolio.coinbase_treasury >= 0
        /\ Abs(portfolio.coinbase_total + portfolio.total_hedge_notional
                   + portfolio.perp_collateral - portfolio.budget) <= 1

\* Two positions at the concentration limit, each stored rounded up, and a
\* treasury of minus one cent
C29_OverCommitted ==
    /\ pc = "done"
    /\ portfolio.num_positions = 2
    /\ portfolio.coinbase_treasury = -1
    /\ portfolio.total_hedge_notional + portfolio.perp_collateral
           = portfolio.deployable + 1

-----------------------------------------------------------------------------
(* alerts.send_critical_alert for one ticker (src/engine/alerts.py:53-71,
   109-122; src/db.py:431-460)

   The scheduler runs market_refresh and scanner on separate threads and
   both call send_critical_alert("SYSTEM", ...).  Each database call is one
   transaction and one step; the Pushover request between the read of
   _should_send and the insert is a step of its own. *)

\* config.py:118
CRITICAL_RESEND_MINUTES == 15

MaxAlerts == 3
MaxMinute == 32

InitAlerts ==
    /\ AlertIdle
    /\ NotAlertIdle

\* db.py:439-445  ORDER BY sent_at DESC LIMIT 1: the row with the greatest
\* sent_at, {} for no row.  sent_at carries microseconds; of two rows that
\* fall into the same minute here the one written later has the greater.
get_last_alert ==
    LET latest == {i \in DOMAIN alert_history :
                      \A k \in DOMAIN alert_history :
                          alert_history[k].sent_at <= alert_history[i].sent_at}
    IN {i \in latest : \A k \in latest : k <= i}

\* alerts.py:53-71 for severity "CRITICAL", given the row get_last_alert
\* returned
_should_send(last) ==
    IF alert_history[last].acknowledged
    THEN FALSE
    ELSE IF minute - alert_history[last].sent_at < CRITICAL_RESEND_MINUTES
    THEN FALSE
    ELSE TRUE

\* the number of calls past the test of _should_send
InFlight == Cardinality({j \in AlertJobs : jpc[j] \in {"post", "insert"}})

\* time passes
Elapse ==
    /\ \E d \in {1, CRITICAL_RESEND_MINUTES - 1} :
          /\ minute + d <= MaxMinute
          /\ minute' = minute + d
    /\ UNCHANGED <<alert_history, jpc, notAlert>>

\* alerts.py:111-112: _should_send says no and the call returns
SCA_Return(j) ==
    /\ jpc[j] = "idle"
    /\ \E last \in get_last_alert : ~_should_send(last)
    /\ jpc' = [jpc EXCEPT ![j] = "suppressed"]
    /\ UNCHANGED <<alert_history, minute, notAlert>>

\* alerts.py:111-113: no row (line 56-57) or _should_send says yes
SCA_Proceed(j) ==
    /\ jpc[j] = "idle"
    /\ Len(alert_history) + InFlight < MaxAlerts
    /\ \/ get_last_alert = {}
       \/ \E last \in get_last_alert : _should_send(last)
    /\ jpc' = [jpc EXCEPT ![j] = "post"]
    /\ UNCHANGED <<alert_history, minute, notAlert>>

\* alerts.py:114-120: the Pushover request ends; _send_pushover's result is
\* not looked at
SCA_Post(j) ==
    /\ jpc[j] = "post"
    /\ jpc' = [jpc EXCEPT ![j] = "insert"]
    /\ UNCHANGED <<alert_history, minute, notAlert>>

\* alerts.py:121, db.py:431-436: the row is written with sent_at = _now() and
\* acknowledged 0
SCA_Insert(j) ==
    /\ jpc[j] = "insert"
    /\ alert_history' = Append(alert_history,
                               [sent_at |-> minute, acknowledged |-> FALSE])
    /\ jpc' = [jpc EXCEPT ![j] = "sent"]
    /\ UNCHANGED <<minute, notAlert>>

\* the job has ended and may run, and fail, again
SCA_Done(j) ==
    /\ jpc[j] \in {"suppressed", "sent"}
    /\ jpc' = [jpc EXCEPT ![j] = "idle"]
    /\ UNCHANGED <<alert_history, minute, notAlert>>

\* db.py:456-460  UPDATE alert_history SET acknowledged = 1 WHERE id = ?
acknowledge_alert(alert_id) ==
    /\ ~alert_history[alert_id].acknowledged
    /\ alert_history' = [alert_history EXCEPT ![alert_id].acknowledged = TRUE]
    /\ UNCHANGED <<minute, jpc, notAlert>>

NextAlerts ==
    \/ Elapse
    \/ \E j \in AlertJobs : SCA_Return(j)
    \/ \E j \in AlertJobs : SCA_Proceed(j)
    \/ \E j \in AlertJobs : SCA_Post(j)
    \/ \E j \in AlertJobs : SCA_Insert(j)
    \/ \E j \in AlertJobs : SCA_Done(j)
    \/ \E alert_id \in DOMAIN alert_history : acknowledge_alert(alert_id)

SpecAlerts == InitAlerts /\ [][NextAlerts]_vars

MostRecent == alert_history[Len(alert_history)]
Recorded == Len(alert_history') = Len(alert_history) + 1

\* the policy the test of _should_send applies, at the moment it is applied
PolicyAllows ==
    \/ alert_history = <<>>
    \/ /\ ~MostRecent.acknowledged
       /\ minute - MostRecent.sent_at >= CRITICAL_RESEND_MINUTES

\* Every call that goes on to send was allowed by the policy when tested.
TestedByPolicy ==
    [][\A j \in AlertJobs :
          (jpc[j] = "idle" /\ jpc'[j] = "post") => PolicyAllows]_vars

\* C30: a CRITICAL alert is recorded only if no CRITICAL alert exists for the
\* ticker or the most recent one is unacknowledged and at least
\* CRITICAL_RESEND_MINUTES old; so two CRITICAL alerts of a ticker are never
\* recorded less than 15 minutes apart, and none is recorded while the most
\* recent one is acknowledged.
C30_AckAwareResend ==
    /\ [][Recorded => PolicyAllows]_vars
    /\ [](\A i, k \in DOMAIN alert_history :
             i < k => alert_history[k].sent_at - alert_history[i].sent_at
                          >= CRITICAL_RESEND_MINUTES)
    /\ [][(alert_history # <<>> /\ MostRecent.acknowledged) => ~Recorded]_vars

\* Both jobs passed the test before either wrote its row: two rows of the
\* same minute
C30_TwoInOneMinute ==
    /\ Len(alert_history) = 2
    /\ alert_history[1].sent_at = alert_history[2].sent_at
    /\ \A j \in AlertJobs : jpc[j] = "sent"

\* A row written after the most recent one was acknowledged
C30_SentAfterAcknowledged ==
    /\ Len(alert_history) = 2
    /\ alert_history[1].acknowledged
    /\ alert_history[2].sent_at = alert_history[1].sent_at
    /\ \E j \in AlertJobs : jpc[j] = "idle"

=============================================================================
